---- MODULE Spec2Model ----
(***************************************************************************)
(* Combat and status-effect core of the game: the monster registry and AI  *)
(* (src/src/monsters.js) and the spell / projectile engine with its freeze *)
(* overlay (src/src/spells.js).                                            *)
(*                                                                         *)
(* Units.  The source computes in floating point; the model uses exact     *)
(* integers in fixed units:                                                *)
(*   length : 1 unit = 0.025 m  (12 m  -> 480, knockback 0.8 m -> 32)      *)
(*   time   : 1 unit = 0.05 s   (1.5 s -> 30,  the 5000 ms timer -> 100)   *)
(*   speed  : length units per time unit (2 m/s -> 4, 25 m/s -> 50)        *)
(*   angle  : 1 unit = pi/4     (pi -> 4, pi/2 -> 2)                       *)
(* Distances are compared through their squares, so `dist < r` is decided  *)
(* exactly.  Entities are placed so that the vector between a monster and  *)
(* whatever it moves towards or away from is parallel to an axis, where    *)
(* dx/dist is exactly -1, 0 or 1.  The y coordinate, rotation, scale,      *)
(* meshes and materials are visual only and are left out.                  *)
(***************************************************************************)
EXTENDS Integers, Sequences, FiniteSets, TLC

\* ------------------------------------------------------------------ bounds

\* Number of calls (operations and clock advances) explored per run.
MaxSteps == 5
\* Largest number of projectiles in flight (castSpell is not offered beyond).
MaxProjectiles == 2
\* Number of normal monsters spawned at construction (the game spawns 5).
NumNormals == 1
\* Number of melee calls per run when the melee decision is probed on its own.
MaxProbes == 2
\* Number of rendered frames per run of the host's game loop.
MaxFrames == 3
\* Number of castSpell calls per run when spell updates repeat without end.
MaxCasts == 2

\* ------------------------------------------------------- program constants

PI == 4
AGGRO_RANGE == 480
ATTACK_RANGE == 80
ATTACK_COOLDOWN == 30
BOSS_AGGRO_RANGE == 1600
BOSS_ATTACK_RANGE == 320
KNOCKBACK == 32
RESPAWN_DELAY == 100
WANDER_PERIOD == 80
NORMAL_HIT_RANGE == 60
BOSS_HIT_RANGE == 160
IMPACT_MAX_TIME == 12
NOVA_MAX_TIME == 30
WANDER_SPEED == 1
WANDER_MIN_DIST == 20
KNOCKBACK_MIN_DIST == 4
NORMAL_REMOVE_TIME == 30
BOSS_REMOVE_TIME == 80

\* The host's game loop computes in its own units: time in ms, lengths in
\* mm, vertical speed in mm/s and height in micrometres (mm/s times ms).
FRAME_CAP == 50
WALK_SPEED == 5
SPRINT_SPEED == 10
GRAVITY == -20
JUMP_FORCE == 8000
HALF_SIZE == 95000
\* The NPC's place (6, 4), the interact distance (5 m) and the index at
\* which a conversation closes.
SVEN_X == 6000
SVEN_Z == 4000
INTERACT_DISTANCE == 5000
LINES_PER_TALK == 3

\* MONSTER_TYPES: hp, damage and speed of the three normal kinds.
MONSTER_TYPES ==
  << [name |-> "Pilz",    hp |-> 60, damage |-> 5, speed |-> 4],
     [name |-> "Schleim", hp |-> 45, damage |-> 3, speed |-> 3],
     [name |-> "Kaefer",  hp |-> 50, damage |-> 4, speed |-> 6] >>

\* The boss's inline type literal and hp.
BossType == [name |-> "Migge", hp |-> 500, damage |-> 15, speed |-> 8]

\* The spell table: cooldown, damage, range, projectile speed, slowDuration.
SpellDefs ==
  [ frostbolt |-> [cooldown |-> 0,   damage |-> 25, range |-> 1600,
                   speed |-> 50, slowDuration |-> 60],
    frostNova |-> [cooldown |-> 160, damage |-> 15, range |-> 240,
                   speed |-> 0,  slowDuration |-> 80] ]

SpellNames == DOMAIN SpellDefs

\* `spells` is a plain object literal: spells[name] also finds what every
\* object inherits from Object.prototype.  Such a value is truthy and has
\* neither currentCd nor cooldown.
InheritedNames == { "toString", "constructor", "hasOwnProperty", "valueOf" }

\* ------------------------------------------------------------ input sets

Pt(x, z) == [x |-> x, z |-> z]

\* Where a normal monster may be spawned (20 m from the origin, on the z axis)
\* and the boss's fixed place (55, 55).
SpawnPoints == { Pt(0, 800) }
BossSpawn == Pt(2200, 2200)
\* Values of Math.random() * 10 for a new monster's animation clock.
SpawnTimes == { 70 }
\* Kinds drawn at spawn (indices into MONSTER_TYPES).
SpawnKinds == { 1 }
\* Positions the caller passes as playerPos / casterPos: 50 m, 12.5 m and 3 m
\* short of the spawn point on the z axis, 3 m short of the boss, and 6 m
\* (the nova range) short of the spawn point.
Far == Pt(0, -1200)
Mid == Pt(0, 300)
Near == Pt(0, 680)
Edge == Pt(0, 560)
NearBoss == Pt(2200, 2080)
\* 8.5 m short of the boss.
BossFront == Pt(2200, 1860)
UpdatePositions == { Near, NearBoss }
MeleePositions == { Near, NearBoss }
DamagePositions == { Near, NearBoss }
\* Spell name and caster position of a castSpell call ("fireball" and
\* "toString" are no spells).
CastInputs == { << "frostbolt", Far >>, << "frostbolt", Mid >>,
                << "frostNova", Near >>, << "frostNova", NearBoss >>,
                << "frostNova", Edge >>,
                << "fireball", Near >>, << "toString", Near >> }
\* Where the player stands during a chase, and the delta of a frame at the
\* game loop's cap (0.05 s).
StandPlaces == { Near, BossFront }
ClampedDeltas == { 1 }
\* A draw of randomRange(-3, 3) that leaves an idle monster where it is, and
\* the time that passes while a monster is frozen (5 s).
StillOffsets == { 0 }
\* The delta of the frames in which freezes are watched (2 s).
LongDeltas == { 40 }
\* The delta of a spell update that lets the frost nova cooldown run out.
CooldownDeltas == { 160 }
ThawSteps == { 100 }
\* Frame deltas passed to the two update functions (0.5 s and 2 s).  The
\* functions take any delta; long frames keep the runs short.
Deltas == { 10, 40 }
\* Facing angles passed to attackMonstersInRange (units of pi/4).
MeleeAngles == { 0, 2 }
MeleeRanges == { 120 }
MeleeDamages == { 60, 500 }
\* Yaw passed to castSpell (multiples of pi/2; pitch is 0).
CastAngles == { 0 }
\* Offsets randomRange(-3, 3) draws for a new idle target (z only; x offset 0).
WanderOffsets == { 30 }
\* Amounts by which the wall clock advances between operations.
ClockSteps == { 50 }
\* Melee probes: the vector from the player to the first monster (on an axis
\* at 0.1 m, 2.5 m, 3 m and 3.5 m, on a diagonal at 2.12 m and 3.18 m), the
\* facing angle (between -3 pi/2 and pi), the range (3 m) and the damage.
ProbeOffsets == { Pt(0, 4), Pt(0, 100), Pt(0, 120), Pt(0, 140), Pt(120, 0),
                  Pt(0, -120), Pt(-120, 0), Pt(60, 60), Pt(90, 90),
                  Pt(-60, -60) }
ProbeAngles == { -6, -4, -3, -2, -1, 0, 1, 2, 4 }
ProbeRanges == { 120 }
ProbeDamages == { 25, 60 }

\* What clock.getDelta() returns (ms since the previous frame; 1 s for a
\* frame after the tab was suspended), and the keys held during a frame.
ElapsedTimes == { 0, 16, 50, 1000 }
MoveKeys == { "none", "forward", "left" }
\* e.code of a key event, and where the player stands when a conversation
\* is watched (mm): 4.8 m from the NPC (one walking frame forward makes it
\* 5 m), and 1 m from it.
KeyCodes == { "KeyE", "KeyW" }
TalkPlaces == { Pt(3000, 7750), Pt(6000, 3000) }

\* --------------------------------------------------------------- helpers

Abs(n) == IF n < 0 THEN -n ELSE n
Max(a, b) == IF a > b THEN a ELSE b
Sgn(n) == IF n > 0 THEN 1 ELSE IF n < 0 THEN -1 ELSE 0

\* dx*dx + dz*dz, the square of Math.sqrt(dx*dx + dz*dz).
DistSq(dx, dz) == dx * dx + dz * dz

\* (d / dist) * len for d a component of the vector (dx, dz).  On an axis
\* the other component is 0 and d / dist is the sign of d; on a diagonal
\* |d| / dist is 1 / sqrt(2), taken as 0.7071 and rounded down to the unit.
Along(d, dx, dz, len) ==
  CASE dx = 0 \/ dz = 0 -> Sgn(d) * len
    [] Abs(dx) = Abs(dz) -> Sgn(d) * ((len * 7071) \div 10000)

\* Math.atan2(dx, dz) in units of pi/4, for axis-parallel and diagonal vectors.
Atan2(dx, dz) ==
  CASE dx = 0 /\ dz >= 0 -> 0
    [] dx = 0 /\ dz < 0 -> 4
    [] dz = 0 /\ dx > 0 -> 2
    [] dz = 0 /\ dx < 0 -> -2
    [] dx = dz /\ dx > 0 -> 1
    [] dx = -dz /\ dx > 0 -> 3
    [] dx = -dz /\ dx < 0 -> -1
    [] dx = dz /\ dx < 0 -> -3

\* The two while loops that bring angleDiff into [-pi, pi].
RECURSIVE NormalizeAngle(_)
NormalizeAngle(a) ==
  IF a > PI THEN NormalizeAngle(a - 2 * PI)
  ELSE IF a < -PI THEN NormalizeAngle(a + 2 * PI)
  ELSE a

\* Math.sin / Math.cos at multiples of pi/2 (angle in units of pi/4).
Sin(a) == CASE a % 8 = 0 -> 0 [] a % 8 = 2 -> 1 [] a % 8 = 4 -> 0 [] a % 8 = 6 -> -1
Cos(a) == CASE a % 8 = 0 -> 1 [] a % 8 = 2 -> 0 [] a % 8 = 4 -> -1 [] a % 8 = 6 -> 0

\* ------------------------------------------------------------------ state

VARIABLES
  monsters,        \* the registry: createMonsterSystem's `monsters` array
  timers,          \* pending setTimeout callbacks (their due wall-clock times)
  spells,          \* currentCd of every spell
  projectiles,     \* createSpellSystem's `projectiles` array
  effects,         \* createSpellSystem's `effects` array
  frozenMaterials, \* keys (monster identities) of the frozenMaterials Map
  now,             \* performance.now() / 1000
  nextId,          \* identities handed out so far (object identity)
  steps,           \* number of calls made so far
  log,             \* what the last call did (see MeleeEntry and LogEntry)
  host             \* the game loop's own state (see InitHost)

vars == << monsters, timers, spells, projectiles, effects, frozenMaterials,
           now, nextId, steps, log, host >>

\* An unset _frozenPos (null) is the empty sequence, a set one is << pos >>.
NoPos == << >>

\* Variant of NewMonster with maxHp a fixed 50 instead of the kind's hp.
NewMonster_FixedMaxHp(id, kind, pos, time) ==
  [ id |-> id, type |-> MONSTER_TYPES[kind], isBoss |-> FALSE,
    hp |-> MONSTER_TYPES[kind].hp, maxHp |-> 50,
    state |-> "idle", time |-> time, attackCooldown |-> 0,
    idleTarget |-> pos, deathTime |-> 0, pos |-> pos,
    slowUntil |-> 0, frozen |-> FALSE, frozenPos |-> << >>,
    slowPos |-> << >>, sinceDamage |-> -1 ]

\* An observation added for the attack-cooldown properties, not a field of
\* the source: sinceDamage is the time monster updates have advanced since
\* the monster last dealt damage to the player -- Never before it first did,
\* and counted no further than the attack cooldown.
Never == -1
Elapsed(since, delta) ==
  IF since = Never THEN Never
  ELSE IF since + delta > ATTACK_COOLDOWN THEN ATTACK_COOLDOWN
  ELSE since + delta

\* The object spawnMonster pushes.  slowUntil = 0 stands for the missing
\* (undefined) property: both are falsy in `m.slowUntil && ...`.  slowPos is
\* an observation added for the freeze properties, not a field of the source:
\* where the monster stood when the slow now in force was applied.
NewMonster(id, kind, pos, time) ==
  [ id |-> id, type |-> MONSTER_TYPES[kind], isBoss |-> FALSE,
    hp |-> MONSTER_TYPES[kind].hp, maxHp |-> MONSTER_TYPES[kind].hp,
    state |-> "idle", time |-> time, attackCooldown |-> 0,
    idleTarget |-> pos, deathTime |-> 0, pos |-> pos,
    slowUntil |-> 0, frozen |-> FALSE, frozenPos |-> NoPos,
    slowPos |-> NoPos, sinceDamage |-> Never ]

\* The object spawnBoss pushes.
NewBoss(id) ==
  [ id |-> id, type |-> BossType, isBoss |-> TRUE,
    hp |-> BossType.hp, maxHp |-> BossType.hp,
    state |-> "idle", time |-> 0, attackCooldown |-> 0,
    idleTarget |-> BossSpawn, deathTime |-> 0, pos |-> BossSpawn,
    slowUntil |-> 0, frozen |-> FALSE, frozenPos |-> NoPos,
    slowPos |-> NoPos, sinceDamage |-> Never ]

AggroRange(m) == IF m.isBoss THEN BOSS_AGGRO_RANGE ELSE AGGRO_RANGE
AttackRange(m) == IF m.isBoss THEN BOSS_ATTACK_RANGE ELSE ATTACK_RANGE
RemoveTime(m) == IF m.isBoss THEN BOSS_REMOVE_TIME ELSE NORMAL_REMOVE_TIME

\* m.time += delta.  Only m.time % 4 is ever read by the game logic, so the
\* clock is kept modulo the wander period.
AdvanceTime(t, delta) == (t + delta) % WANDER_PERIOD

\* The `m.state === 'dead'` branch of update: deathTime advances.
StepDead(m, delta) ==
  [ m EXCEPT !.time = AdvanceTime(@, delta), !.deathTime = @ + delta,
             !.sinceDamage = Elapsed(@, delta) ]

\* Variant of ShouldRemove with `>=`: removal as soon as the threshold is met.
ShouldRemove_AtThreshold(m) == m.deathTime >= RemoveTime(m)

\* if (m.deathTime > removeTime): the monster is spliced out.
ShouldRemove(m) == m.deathTime > RemoveTime(m)

\* Variant of StepAlive with the attack test written `dist <= attackRange`.
StepAlive_AttackAtRange(m, delta, playerPos, off) ==
  LET dx == playerPos.x - m.pos.x
      dz == playerPos.z - m.pos.z
      dsq == DistSq(dx, dz)
      t == AdvanceTime(m.time, delta)
      m1 == [ m EXCEPT !.time = t,
                       !.attackCooldown = Max(0, @ - delta),
                       !.sinceDamage = Elapsed(@, delta) ]
  IN IF dsq < AggroRange(m) * AggroRange(m)
     THEN IF dsq <= AttackRange(m) * AttackRange(m)
          THEN [ m1 EXCEPT !.state = "attack" ]
          ELSE [ m1 EXCEPT !.state = "chase",
                   !.pos = Pt(m.pos.x + Along(dx, dx, dz, m.type.speed * delta),
                              m.pos.z + Along(dz, dx, dz, m.type.speed * delta)) ]
     ELSE LET target == IF t % WANDER_PERIOD < delta
                        THEN Pt(m.pos.x, m.pos.z + off)
                        ELSE m.idleTarget
              idx == target.x - m.pos.x
              idz == target.z - m.pos.z
          IN IF DistSq(idx, idz) > WANDER_MIN_DIST * WANDER_MIN_DIST
             THEN [ m1 EXCEPT !.state = "idle", !.idleTarget = target,
                      !.pos = Pt(m.pos.x + Along(idx, idx, idz, WANDER_SPEED * delta),
                                 m.pos.z + Along(idz, idx, idz, WANDER_SPEED * delta)) ]
             ELSE [ m1 EXCEPT !.state = "idle", !.idleTarget = target ]

\* Variant of StepAlive whose chase step leads away from the player.
StepAlive_Retreat(m, delta, playerPos, off) ==
  LET dx == playerPos.x - m.pos.x
      dz == playerPos.z - m.pos.z
      dsq == DistSq(dx, dz)
      m1 == [ m EXCEPT !.time = AdvanceTime(@, delta),
                       !.attackCooldown = Max(0, @ - delta),
                       !.sinceDamage = Elapsed(@, delta) ]
  IN IF dsq < AggroRange(m) * AggroRange(m)
     THEN IF dsq < AttackRange(m) * AttackRange(m)
          THEN [ m1 EXCEPT !.state = "attack" ]
          ELSE [ m1 EXCEPT !.state = "chase",
                   !.pos = Pt(m.pos.x - Along(dx, dx, dz, m.type.speed * delta),
                              m.pos.z - Along(dz, dx, dz, m.type.speed * delta)) ]
     ELSE [ m1 EXCEPT !.state = "idle" ]

\* The body of update for a monster that is not dead: cooldown, then
\* attack / chase / idle by the distance to the player.
StepAlive(m, delta, playerPos, off) ==
  LET dx == playerPos.x - m.pos.x
      dz == playerPos.z - m.pos.z
      dsq == DistSq(dx, dz)
      t == AdvanceTime(m.time, delta)
      m1 == [ m EXCEPT !.time = t,
                       !.attackCooldown = Max(0, @ - delta),
                       !.sinceDamage = Elapsed(@, delta) ]
  IN IF dsq < AggroRange(m) * AggroRange(m)
     THEN IF dsq < AttackRange(m) * AttackRange(m)
          THEN [ m1 EXCEPT !.state = "attack" ]
          ELSE [ m1 EXCEPT !.state = "chase",
                   !.pos = Pt(m.pos.x + Along(dx, dx, dz, m.type.speed * delta),
                              m.pos.z + Along(dz, dx, dz, m.type.speed * delta)) ]
     ELSE LET target == IF t % WANDER_PERIOD < delta
                        THEN Pt(m.pos.x, m.pos.z + off)
                        ELSE m.idleTarget
              idx == target.x - m.pos.x
              idz == target.z - m.pos.z
          IN IF DistSq(idx, idz) > WANDER_MIN_DIST * WANDER_MIN_DIST
             THEN [ m1 EXCEPT !.state = "idle", !.idleTarget = target,
                      !.pos = Pt(m.pos.x + Along(idx, idx, idz, WANDER_SPEED * delta),
                                 m.pos.z + Along(idz, idx, idz, WANDER_SPEED * delta)) ]
             ELSE [ m1 EXCEPT !.state = "idle", !.idleTarget = target ]

RemoveAt(list, i) == SubSeq(list, 1, i - 1) \o SubSeq(list, i + 1, Len(list))
ReplaceAt(list, i, m) == [ list EXCEPT ![i] = m ]

\* for (let i = monsters.length - 1; i >= 0; i--): the registry after the
\* iterations i, i-1, .., 1 and the identities removed (a timer is set for
\* each that is not the boss).  offs[i] is the wander offset drawn for entry i.
\* One iteration of update's loop, for the monster at index i: the registry
\* and the removed monsters after it.
UpdateStep(list, i, delta, playerPos, offs, acc) ==
  LET m == list[i] IN
  IF m.state = "dead"
  THEN LET d == StepDead(m, delta) IN
       IF ShouldRemove(d)
       THEN [ monsters |-> RemoveAt(list, i), removed |-> Append(acc, d) ]
       ELSE [ monsters |-> ReplaceAt(list, i, d), removed |-> acc ]
  ELSE [ monsters |-> ReplaceAt(list, i,
                                StepAlive(m, delta, playerPos, offs[i])),
         removed |-> acc ]

RECURSIVE UpdateLoop(_, _, _, _, _, _)
UpdateLoop(list, i, delta, playerPos, offs, acc) ==
  IF i < 1 THEN [ monsters |-> list, removed |-> acc ]
  ELSE CHOOSE r \in
         { UpdateLoop(s.monsters, i - 1, delta, playerPos, offs, s.removed) :
           s \in { UpdateStep(list, i, delta, playerPos, offs, acc) } } : TRUE

\* Variant of UpdateLoop run with an ascending index: after a splice at i
\* the loop goes on at i + 1, over the entry that moved down to i.
RECURSIVE ForwardLoop(_, _, _, _, _, _)
ForwardLoop(list, i, delta, playerPos, offs, acc) ==
  IF i > Len(list) THEN [ monsters |-> list, removed |-> acc ]
  ELSE LET m == list[i] IN
       IF m.state = "dead"
       THEN LET d == StepDead(m, delta) IN
            IF ShouldRemove(d)
            THEN ForwardLoop(RemoveAt(list, i), i + 1, delta, playerPos, offs,
                             Append(acc, d))
            ELSE ForwardLoop(ReplaceAt(list, i, d), i + 1, delta, playerPos, offs, acc)
       ELSE ForwardLoop(ReplaceAt(list, i, StepAlive(m, delta, playerPos, offs[1])),
                        i + 1, delta, playerPos, offs, acc)

OrigUpdate_Forward(list, delta, playerPos, offs) ==
  ForwardLoop(list, 1, delta, playerPos, offs, << >>)

\* The original update(delta, playerPos) of the monster system.
OrigUpdate(list, delta, playerPos, offs) ==
  UpdateLoop(list, Len(list), delta, playerPos, offs, << >>)

\* Variant of NewTimers without the `!m.isBoss` test: a timer per removal.
NewTimers_BossToo(removed, clock) ==
  [ k \in 1..Len(removed) |-> clock + RESPAWN_DELAY ]

\* Variant of NewTimers without the setTimeout: no monster comes back.
NewTimers_None(removed, clock) == << >>

\* setTimeout(() => spawnMonster(scene, monsters), 5000) for every removed
\* monster that is not the boss, in the order they were removed.
NewTimers(removed, clock) ==
  LET nb == SelectSeq(removed, LAMBDA m : ~m.isBoss)
  IN [ k \in 1..Len(nb) |-> clock + RESPAWN_DELAY ]

\* ------------------------------------------------------- melee, monster hits

\* Variant of Kill without `m.hp = 0`: hp keeps the value the blow left.
Kill_NoClamp(m) == [ m EXCEPT !.state = "dead", !.deathTime = 0 ]

\* m.hp = 0; m.state = 'dead'; m.deathTime = 0.
Kill(m) == [ m EXCEPT !.hp = 0, !.state = "dead", !.deathTime = 0 ]

\* Variant of InMeleeReach that also skips a monster at dist = range.
InMeleeReach_Strict(m, playerPos, range) ==
  DistSq(m.pos.x - playerPos.x, m.pos.z - playerPos.z) < range * range

\* `if (dist > range) continue` does not skip the monster.
InMeleeReach(m, playerPos, range) ==
  ~ (DistSq(m.pos.x - playerPos.x, m.pos.z - playerPos.z) > range * range)

\* Math.abs(angleDiff) < Math.PI / 2 after the normalisation.
InMeleeArc(m, playerPos, playerAngle) ==
  LET dx == m.pos.x - playerPos.x
      dz == m.pos.z - playerPos.z
  IN 2 * Abs(NormalizeAngle(Atan2(dx, dz) - playerAngle)) < PI

\* Variant of MeleeHit with the death test written `m.hp < 0`: a blow that
\* brings hp to exactly 0 leaves the monster alive.
MeleeHit_DeathBelowZero(m, playerPos, damage) ==
  LET dx == m.pos.x - playerPos.x
      dz == m.pos.z - playerPos.z
      m1 == [ m EXCEPT !.hp = @ - damage ]
      m2 == IF DistSq(dx, dz) > KNOCKBACK_MIN_DIST * KNOCKBACK_MIN_DIST
            THEN [ m1 EXCEPT !.pos = Pt(m.pos.x + Along(dx, dx, dz, KNOCKBACK),
                                        m.pos.z + Along(dz, dx, dz, KNOCKBACK)) ]
            ELSE m1
  IN IF m2.hp < 0 THEN [ m2 EXCEPT !.hp = 0, !.state = "dead", !.deathTime = 0 ]
     ELSE m2

\* Variant of MeleeHit with the knockback's sign slipped: the monster is
\* pulled towards the attacker.
MeleeHit_PullsIn(m, playerPos, damage) ==
  LET dx == m.pos.x - playerPos.x
      dz == m.pos.z - playerPos.z
      m1 == [ m EXCEPT !.hp = @ - damage ]
      m2 == IF DistSq(dx, dz) > KNOCKBACK_MIN_DIST * KNOCKBACK_MIN_DIST
            THEN [ m1 EXCEPT !.pos = Pt(m.pos.x - Along(dx, dx, dz, KNOCKBACK),
                                        m.pos.z - Along(dz, dx, dz, KNOCKBACK)) ]
            ELSE m1
  IN IF m2.hp <= 0 THEN Kill(m2) ELSE m2

\* The body of the `if (Math.abs(angleDiff) < Math.PI / 2)` block: damage,
\* knockback when dist > 0.1, death when hp <= 0.
MeleeHit(m, playerPos, damage) ==
  LET dx == m.pos.x - playerPos.x
      dz == m.pos.z - playerPos.z
      m1 == [ m EXCEPT !.hp = @ - damage ]
      m2 == IF DistSq(dx, dz) > KNOCKBACK_MIN_DIST * KNOCKBACK_MIN_DIST
            THEN [ m1 EXCEPT !.pos = Pt(m.pos.x + Along(dx, dx, dz, KNOCKBACK),
                                        m.pos.z + Along(dz, dx, dz, KNOCKBACK)) ]
            ELSE m1
  IN IF m2.hp <= 0 THEN Kill(m2) ELSE m2

\* Variant of MeleeStrikes without the `m.state === 'dead'` skip.
MeleeStrikes_DeadToo(m, playerPos, playerAngle, range) ==
  /\ InMeleeReach(m, playerPos, range)
  /\ InMeleeArc(m, playerPos, playerAngle)

\* Whether the loop of attackMonstersInRange reaches the hit block for m.
MeleeStrikes(m, playerPos, playerAngle, range) ==
  /\ m.state # "dead"
  /\ InMeleeReach(m, playerPos, range)
  /\ InMeleeArc(m, playerPos, playerAngle)

\* An observation, not a value of the source: for a monster the hit block
\* was reached for, the squared distance and the range the decision was
\* taken on.
MeleeEntry(m, playerPos, playerAngle, range) ==
  LET dx == m.pos.x - playerPos.x
      dz == m.pos.z - playerPos.z
  IN [ op |-> "melee", id |-> m.id, distSq |-> DistSq(dx, dz),
       range |-> range ]

\* attackMonstersInRange(playerPos, playerAngle, range, damage).
AttackMonstersInRange(list, playerPos, playerAngle, range, damage) ==
  [ monsters |-> [ i \in 1..Len(list) |->
                     IF MeleeStrikes(list[i], playerPos, playerAngle, range)
                     THEN MeleeHit(list[i], playerPos, damage)
                     ELSE list[i] ],
    hitAny |-> \E i \in 1..Len(list) :
                  MeleeStrikes(list[i], playerPos, playerAngle, range),
    log |-> LET struck == SelectSeq(list, LAMBDA m :
                              MeleeStrikes(m, playerPos, playerAngle, range))
            IN [ k \in 1..Len(struck) |->
                   MeleeEntry(struck[k], playerPos, playerAngle, range) ] ]

\* Variant of DealsDamage without the `m.attackCooldown > 0` test.
DealsDamage_NoCooldownTest(m, playerPos) ==
  /\ m.state = "attack"
  /\ DistSq(playerPos.x - m.pos.x, playerPos.z - m.pos.z)
       < AttackRange(m) * AttackRange(m)

\* Whether checkPlayerDamage counts m: state 'attack', cooldown over, in range.
DealsDamage(m, playerPos) ==
  /\ ~ (m.state # "attack" \/ m.attackCooldown > 0)
  /\ DistSq(playerPos.x - m.pos.x, playerPos.z - m.pos.z)
       < AttackRange(m) * AttackRange(m)

RECURSIVE SumDamage(_, _, _)
SumDamage(list, i, playerPos) ==
  IF i > Len(list) THEN 0
  ELSE (IF DealsDamage(list[i], playerPos) THEN list[i].type.damage ELSE 0)
       + SumDamage(list, i + 1, playerPos)

\* An observation, not a value of the source: for a monster checkPlayerDamage
\* counted, what its sinceDamage was and the total the call returned.
DamageEntry(m, total) ==
  [ op |-> "damage", id |-> m.id, since |-> m.sinceDamage, total |-> total ]

\* checkPlayerDamage(playerPos): the registry after it, the value returned,
\* and the monsters counted.
CheckPlayerDamage(list, playerPos) ==
  [ monsters |-> [ i \in 1..Len(list) |->
                     IF DealsDamage(list[i], playerPos)
                     THEN [ list[i] EXCEPT !.attackCooldown = ATTACK_COOLDOWN,
                                           !.sinceDamage = 0 ]
                     ELSE list[i] ],
    totalDamage |-> SumDamage(list, 1, playerPos),
    log |-> LET counted == SelectSeq(list, LAMBDA m : DealsDamage(m, playerPos))
            IN [ k \in 1..Len(counted) |->
                   DamageEntry(counted[k], SumDamage(list, 1, playerPos)) ] ]

\* ------------------------------------------------------------ spell engine

\* const spell = spells[name]; if (!spell || spell.currentCd > 0) return false.
\* The value castSpell returns.  For an inherited name spell is truthy and
\* spell.currentCd is undefined, and `undefined > 0` is false.
CastAccepted(cds, name) ==
  ~ \/ name \notin SpellNames \cup InheritedNames
    \/ name \in SpellNames /\ cds[name] > 0

\* canCast: return spell && spell.currentCd <= 0.  Whether the value is
\* truthy.  For an inherited name spell.currentCd is undefined, and
\* `undefined <= 0` is false.
CanCast(cds, name) == name \in SpellNames /\ cds[name] <= 0

\* Variant of CooldownAfterCast that starts frostbolt's cooldown from its
\* castTime (1.5 s) instead of its cooldown (0).
CooldownAfterCast_CastTime(name) ==
  IF name = "frostbolt" THEN 30 ELSE SpellDefs[name].cooldown

\* spell.currentCd = spell.cooldown.
CooldownAfterCast(name) == SpellDefs[name].cooldown

\* m.slowUntil = performance.now() / 1000 + slowDuration.
ApplySlow(m, clock, duration) ==
  [ m EXCEPT !.slowUntil = clock + duration,
             !.slowPos = IF m.slowUntil # 0 /\ clock < m.slowUntil
                         THEN @ ELSE << m.pos >> ]

\* Variant of NovaHit that slows for half the spell's slowDuration.
NovaHit_ShortSlow(m, spell, clock) ==
  LET m1 == ApplySlow([ m EXCEPT !.hp = @ - spell.damage ], clock,
                      spell.slowDuration \div 2)
  IN IF m1.hp <= 0 THEN Kill(m1) ELSE m1

\* The body of spawnFrostNova's `if (dist < spell.range)` block.
NovaHit(m, spell, clock) ==
  LET m1 == ApplySlow([ m EXCEPT !.hp = @ - spell.damage ], clock,
                      spell.slowDuration)
  IN IF m1.hp <= 0 THEN Kill(m1) ELSE m1

\* Variant of NovaReaches with the range test written `dist <= spell.range`.
NovaReaches_AtRange(m, casterPos, spell) ==
  /\ m.state # "dead"
  /\ DistSq(m.pos.x - casterPos.x, m.pos.z - casterPos.z)
       <= spell.range * spell.range

\* Whether spawnFrostNova's loop reaches that block for m.
NovaReaches(m, casterPos, spell) ==
  /\ m.state # "dead"
  /\ DistSq(m.pos.x - casterPos.x, m.pos.z - casterPos.z)
       < spell.range * spell.range

\* spawnFrostNova: the damage loop over the registry.
SpawnFrostNova(list, casterPos, spell, clock) ==
  [ i \in 1..Len(list) |->
      IF NovaReaches(list[i], casterPos, spell)
      THEN NovaHit(list[i], spell, clock)
      ELSE list[i] ]

NovaEffect == [ type |-> "frostNova", time |-> 0, maxTime |-> NOVA_MAX_TIME ]
ImpactEffect == [ type |-> "impact", time |-> 0, maxTime |-> IMPACT_MAX_TIME ]

\* The projectile spawnFrostbolt pushes (pitch 0: dir = (sin yaw, 0, cos yaw)).
\* castAt is an observation added for the slow-expiry properties, not a field
\* of the source: the wall-clock time of the cast.
NewProjectile(casterPos, angle, spell, clock) ==
  [ pos |-> casterPos, dir |-> Pt(Sin(angle), Cos(angle)),
    speed |-> spell.speed, damage |-> spell.damage,
    slowDuration |-> spell.slowDuration, range |-> spell.range,
    traveled |-> 0, castAt |-> clock ]

\* p.group.position.add(move); p.traveled += p.speed * delta.
Advance(p, delta) ==
  [ p EXCEPT !.pos = Pt(p.pos.x + p.dir.x * p.speed * delta,
                        p.pos.z + p.dir.z * p.speed * delta),
             !.traveled = @ + p.speed * delta ]

HitRange(m) == IF m.isBoss THEN BOSS_HIT_RANGE ELSE NORMAL_HIT_RANGE

\* Whether the hit loop stops at m: not dead and dist < hitRange.
ProjectileTouches(p, m) ==
  /\ m.state # "dead"
  /\ DistSq(m.pos.x - p.pos.x, m.pos.z - p.pos.z) < HitRange(m) * HitRange(m)

\* Index of the monster the hit loop breaks at, 0 when it runs to the end.
FirstHit(list, p) ==
  LET H == { i \in 1..Len(list) : ProjectileTouches(p, list[i]) }
  IN IF H = {} THEN 0 ELSE CHOOSE i \in H : \A j \in H : i <= j

\* Variant of BoltHit that counts the slow from the cast of the projectile.
BoltHit_SlowFromCast(m, p, clock) ==
  LET m1 == ApplySlow([ m EXCEPT !.hp = @ - p.damage ], p.castAt,
                      p.slowDuration)
  IN IF m1.hp <= 0 THEN Kill(m1) ELSE m1

\* The body of the `if (dist < hitRange)` block of the projectile loop.
BoltHit(m, p, clock) ==
  LET m1 == ApplySlow([ m EXCEPT !.hp = @ - p.damage ], clock, p.slowDuration)
  IN IF m1.hp <= 0 THEN Kill(m1) ELSE m1

\* Variant of ProjectileGone without the range test: only a hit removes.
ProjectileGone_HitOnly(p, hit) == hit

\* Variant of ProjectileGone without the hit test: only the range removes.
ProjectileGone_RangeOnly(p, hit) == p.traveled > p.range

\* if (hit || p.traveled > p.range): the projectile is spliced out.
ProjectileGone(p, hit) == hit \/ p.traveled > p.range

\* An observation, not a value of the source: what one iteration of the
\* projectile loop did with a projectile that hit or left the list -- its
\* traveled distance before and after advancing, the monsters it damaged,
\* the impact effects it spawned, whether it was spliced out, and when it
\* had been cast.
LogEntry(p0, p, victims, impacts, gone) ==
  [ op |-> "bolt", before |-> p0.traveled, traveled |-> p.traveled,
    range |-> p.range, victims |-> victims, impacts |-> impacts,
    removed |-> gone, castAt |-> p0.castAt ]

\* One iteration of the projectile loop, for the projectile at index i: st
\* holds the registry, the projectile and effect lists and the log of the
\* iterations so far.
ProjectileStep(st, i, delta, clock) ==
  LET p == Advance(st.projectiles[i], delta)
      h == FirstHit(st.monsters, p)
      hit == h # 0
      gone == ProjectileGone(p, hit)
      entry == LogEntry(st.projectiles[i], p,
                        IF hit THEN << st.monsters[h].id >> ELSE << >>,
                        IF hit THEN 1 ELSE 0, gone)
  IN [ monsters |-> IF hit
                    THEN ReplaceAt(st.monsters, h,
                                   BoltHit(st.monsters[h], p, clock))
                    ELSE st.monsters,
       projectiles |-> IF gone THEN RemoveAt(st.projectiles, i)
                       ELSE ReplaceAt(st.projectiles, i, p),
       effects |-> IF hit THEN Append(st.effects, ImpactEffect)
                   ELSE st.effects,
       log |-> IF hit \/ gone THEN Append(st.log, entry) ELSE st.log ]

\* for (let i = projectiles.length - 1; i >= 0; i--): the iterations i,
\* i - 1, .., 1 in turn, each on the outcome of the one before.
RECURSIVE ProjectileLoop(_, _, _, _)
ProjectileLoop(st, i, delta, clock) ==
  IF i < 1 THEN st
  ELSE CHOOSE r \in { ProjectileLoop(s, i - 1, delta, clock) :
                        s \in { ProjectileStep(st, i, delta, clock) } } : TRUE

\* Variant of UpdateEffects that loses `e.time += delta`.
UpdateEffects_Stalled(list, delta) ==
  SelectSeq(list, LAMBDA e : ~ (e.time > e.maxTime))

\* The effects loop: e.time += delta, spliced out when e.time > e.maxTime.
UpdateEffects(list, delta) ==
  SelectSeq([ i \in 1..Len(list) |-> [ list[i] EXCEPT !.time = @ + delta ] ],
            LAMBDA e : ~ (e.time > e.maxTime))

\* Variant of DecayCooldowns without Math.max(0, ...).
DecayCooldowns_NoFloor(cds, delta) ==
  [ n \in DOMAIN cds |-> cds[n] - delta ]

\* s.currentCd = Math.max(0, s.currentCd - delta) for every spell.
DecayCooldowns(cds, delta) ==
  [ n \in DOMAIN cds |-> Max(0, cds[n] - delta) ]

\* -------------------------------------------------------- freeze overlay

\* isFrozen = m.slowUntil && now < m.slowUntil && m.state !== 'dead'.
IsFrozen(m, clock) ==
  m.slowUntil # 0 /\ clock < m.slowUntil /\ m.state # "dead"

\* m._frozenPos = m._frozenPos || { x, z } for a monster marked frozen.
SnapshotPos(m) == IF m.frozenPos # NoPos THEN m.frozenPos ELSE << m.pos >>

\* Variant of PreFreeze that keeps the snapshot when the mark is cleared.
PreFreeze_KeepSnapshot(m, clock) ==
  LET f == IsFrozen(m, clock)
      m1 == IF f /\ ~ m.frozen THEN [ m EXCEPT !.frozen = TRUE ]
            ELSE IF ~ f /\ m.frozen THEN [ m EXCEPT !.frozen = FALSE ]
            ELSE m
  IN [ m1 EXCEPT !.frozenPos = IF m1.frozen THEN SnapshotPos(m1) ELSE @ ]

\* The loop before origUpdate, for one monster: mark / unmark, snapshot.
PreFreeze(m, clock) ==
  LET f == IsFrozen(m, clock)
      m1 == IF f /\ ~ m.frozen THEN [ m EXCEPT !.frozen = TRUE ]
            ELSE IF ~ f /\ m.frozen THEN [ m EXCEPT !.frozen = FALSE ]
            ELSE m
  IN [ m1 EXCEPT !.frozenPos = IF m1.frozen THEN SnapshotPos(m1) ELSE NoPos ]

\* Variant of MaterialsAfter without frozenMaterials.delete(m).
MaterialsAfter_NoDelete(fm, list, clock) ==
  fm \cup { list[i].id : i \in { j \in 1..Len(list) :
               IsFrozen(list[j], clock) /\ ~ list[j].frozen } }

\* frozenMaterials after that loop: set for the newly frozen, deleted for
\* the newly released.
MaterialsAfter(fm, list, clock) ==
  (fm \cup { list[i].id : i \in { j \in 1..Len(list) :
                IsFrozen(list[j], clock) /\ ~ list[j].frozen } })
  \ { list[i].id : i \in { j \in 1..Len(list) :
                ~ IsFrozen(list[j], clock) /\ list[j].frozen } }

\* Variant of SnapBack that leaves every monster where origUpdate put it.
SnapBack_Never(m) == m

\* The loop after origUpdate, for one monster: snap back to the snapshot.
SnapBack(m) ==
  IF m.frozen /\ m.frozenPos # NoPos
  THEN [ m EXCEPT !.pos = m.frozenPos[1] ]
  ELSE m

\* Variant of OverlayUpdate whose snap-back also puts a frozen monster's
\* state back to what it was before origUpdate.
OverlayUpdate_Pacify(list, delta, playerPos, offs, clock) ==
  LET pre == [ i \in 1..Len(list) |-> PreFreeze(list[i], clock) ]
      res == OrigUpdate(pre, delta, playerPos, offs)
      Old(m) == pre[CHOOSE i \in 1..Len(pre) : pre[i].id = m.id]
  IN [ monsters |-> [ i \in 1..Len(res.monsters) |->
                        IF res.monsters[i].frozen
                        THEN [ SnapBack(res.monsters[i]) EXCEPT
                                 !.state = Old(res.monsters[i]).state ]
                        ELSE res.monsters[i] ],
       removed |-> res.removed ]

\* monsterSystem.update as the spell system replaces it.
OverlayUpdate(list, delta, playerPos, offs, clock) ==
  CHOOSE r \in
    { [ monsters |-> [ i \in 1..Len(res.monsters) |-> SnapBack(res.monsters[i]) ],
        removed |-> res.removed ] :
      res \in { OrigUpdate(pre, delta, playerPos, offs) :
                pre \in { [ i \in 1..Len(list) |->
                              PreFreeze(list[i], clock) ] } } } : TRUE

\* -------------------------------------------------------------- game loop

\* The module-level state of the game loop before the first frame: the
\* character at (0, spawnY, 0) on the ground, velocityY 0.  The terrain is
\* taken as level, at height 0.  elapsed and delta are the value getDelta
\* returned in the last frame and the delta the frame used.  The dialogue is
\* closed; promptHidden and boxHidden say whether the two elements carry the
\* class 'hidden'.  shown is an observation, not a value of the source: how
\* often dialogueText.textContent was set since the dialogue was opened.
InitHost ==
  [ elapsed |-> 0, delta |-> 0, x |-> 0, z |-> 0, y |-> 0,
    velocityY |-> 0, isGrounded |-> TRUE,
    dialogueOpen |-> FALSE, currentLineIndex |-> -1, nearSven |-> FALSE,
    eKeyHandled |-> FALSE, promptHidden |-> TRUE, boxHidden |-> TRUE,
    shown |-> 0 ]

\* Variant of ClampDelta without Math.min: the frame uses getDelta as it is.
ClampDelta_Unclamped(elapsed) == elapsed

\* const delta = Math.min(clock.getDelta(), 0.05).
ClampDelta(elapsed) == IF elapsed < FRAME_CAP THEN elapsed ELSE FRAME_CAP

\* controls.update: the direction of the key held (yaw 0) ...
MoveDirection(key) ==
  CASE key = "forward" -> Pt(0, 1)
    [] key = "left" -> Pt(1, 0)
    [] OTHER -> Pt(0, 0)

\* ... and the speed, 0 when no key is held.
MoveSpeed(key, sprint) ==
  IF key = "none" THEN 0 ELSE IF sprint THEN SPRINT_SPEED ELSE WALK_SPEED

\* THREE.MathUtils.clamp(v, -halfSize, halfSize).
ClampToBounds(v) ==
  IF v < -HALF_SIZE THEN -HALF_SIZE ELSE IF v > HALF_SIZE THEN HALF_SIZE ELSE v

\* Variant of NearSven with the test written `distToSven <= INTERACT_DISTANCE`.
NearSven_AtDistance(x, z) ==
  DistSq(x - SVEN_X, z - SVEN_Z) <= INTERACT_DISTANCE * INTERACT_DISTANCE

\* distToSven < INTERACT_DISTANCE for the character at (x, z).
NearSven(x, z) ==
  DistSq(x - SVEN_X, z - SVEN_Z) < INTERACT_DISTANCE * INTERACT_DISTANCE

\* One call of gameLoop: the clamped delta, the character's move, the jump
\* and gravity, the bounds, the proximity check.  Rotation, animation, the
\* light and the camera are visual and left out.
GameLoop(elapsed, key, sprint, jump) ==
  LET delta == ClampDelta(elapsed)
      dir == MoveDirection(key)
      speed == MoveSpeed(key, sprint)
      x1 == host.x + dir.x * speed * delta
      z1 == host.z + dir.z * speed * delta
      jumped == jump /\ host.isGrounded
      grounded == host.isGrounded /\ ~ jumped
      v0 == IF jumped THEN JUMP_FORCE ELSE host.velocityY
      v1 == v0 + GRAVITY * delta
      y1 == host.y + v1 * delta
      landed == y1 <= 0
      near == NearSven(ClampToBounds(x1), ClampToBounds(z1))
  IN host' = [ elapsed |-> elapsed, delta |-> delta,
               x |-> ClampToBounds(x1), z |-> ClampToBounds(z1),
               y |-> IF grounded \/ landed THEN 0 ELSE y1,
               velocityY |-> IF grounded THEN v0
                             ELSE IF landed THEN 0 ELSE v1,
               isGrounded |-> grounded \/ landed,
               nearSven |-> near,
               promptHidden |-> IF near
                                THEN host.dialogueOpen /\ host.promptHidden
                                ELSE TRUE,
               dialogueOpen |-> near /\ host.dialogueOpen,
               boxHidden |-> IF ~ near /\ host.dialogueOpen THEN TRUE
                             ELSE host.boxHidden,
               currentLineIndex |-> host.currentLineIndex,
               eKeyHandled |-> host.eKeyHandled,
               shown |-> host.shown ]

\* Variant of KeyDown without the eKeyHandled latch: every keydown event of
\* a held key counts.
KeyDown_NoLatch(code) ==
  /\ host' =
       IF code # "KeyE" THEN host
       ELSE IF host.dialogueOpen
            THEN IF host.currentLineIndex + 1 >= LINES_PER_TALK
                 THEN [ host EXCEPT !.eKeyHandled = TRUE,
                                    !.currentLineIndex = @ + 1,
                                    !.dialogueOpen = FALSE,
                                    !.boxHidden = TRUE ]
                 ELSE [ host EXCEPT !.eKeyHandled = TRUE,
                                    !.currentLineIndex = @ + 1,
                                    !.shown = @ + 1 ]
            ELSE IF host.nearSven
                 THEN [ host EXCEPT !.eKeyHandled = TRUE,
                                    !.dialogueOpen = TRUE,
                                    !.currentLineIndex = 0,
                                    !.shown = 1,
                                    !.boxHidden = FALSE,
                                    !.promptHidden = TRUE ]
                 ELSE [ host EXCEPT !.eKeyHandled = TRUE ]
  /\ UNCHANGED << monsters, timers, spells, projectiles, effects,
                  frozenMaterials, now, nextId, steps, log >>

\* The keydown listener of the dialogue.
KeyDown(code) ==
  /\ host' =
       IF code # "KeyE" \/ host.eKeyHandled THEN host
       ELSE IF host.dialogueOpen
            THEN IF host.currentLineIndex + 1 >= LINES_PER_TALK
                 THEN [ host EXCEPT !.eKeyHandled = TRUE,
                                    !.currentLineIndex = @ + 1,
                                    !.dialogueOpen = FALSE,
                                    !.boxHidden = TRUE ]
                 ELSE [ host EXCEPT !.eKeyHandled = TRUE,
                                    !.currentLineIndex = @ + 1,
                                    !.shown = @ + 1 ]
            ELSE IF host.nearSven
                 THEN [ host EXCEPT !.eKeyHandled = TRUE,
                                    !.dialogueOpen = TRUE,
                                    !.currentLineIndex = 0,
                                    !.shown = 1,
                                    !.boxHidden = FALSE,
                                    !.promptHidden = TRUE ]
                 ELSE [ host EXCEPT !.eKeyHandled = TRUE ]
  /\ UNCHANGED << monsters, timers, spells, projectiles, effects,
                  frozenMaterials, now, nextId, steps, log >>

\* The keyup listener of the dialogue.
KeyUp(code) ==
  /\ host' = IF code = "KeyE" THEN [ host EXCEPT !.eKeyHandled = FALSE ]
             ELSE host
  /\ UNCHANGED << monsters, timers, spells, projectiles, effects,
                  frozenMaterials, now, nextId, steps, log >>

\* ---------------------------------------------------------------- actions

Ids(list) == { list[i].id : i \in 1..Len(list) }
ById(list, id) == list[CHOOSE i \in 1..Len(list) : list[i].id = id]

\* createMonsterSystem followed by createSpellSystem: the normal monsters,
\* then the boss; no timer, projectile or effect; both spells ready.
InitSystems ==
  /\ \E kinds \in [1..NumNormals -> SpawnKinds] :
     \E pos \in SpawnPoints : \E t \in SpawnTimes :
       monsters = [ i \in 1..(NumNormals + 1) |->
                      IF i <= NumNormals THEN NewMonster(i, kinds[i], pos, t)
                      ELSE NewBoss(i) ]
  /\ timers = << >>
  /\ spells = [ n \in SpellNames |-> 0 ]
  /\ projectiles = << >>
  /\ effects = << >>
  /\ frozenMaterials = {}
  /\ now = 0
  /\ nextId = NumNormals + 2
  /\ steps = 0
  /\ log = << >>

\* ... and the game loop's state before the first frame.
Init == InitSystems /\ host = InitHost

\* monsterSystem.update(delta, playerPos), the overlay included.
MonsterUpdate(delta, playerPos, offs) ==
  /\ \E r \in { OverlayUpdate(monsters, delta, playerPos, offs, now) } :
       /\ monsters' = r.monsters
       /\ timers' = timers \o NewTimers(r.removed, now)
  /\ frozenMaterials' = MaterialsAfter(frozenMaterials, monsters, now)
  /\ log' = << >>
  /\ UNCHANGED << spells, projectiles, effects, now, nextId >>

\* monsterSystem.checkPlayerDamage(playerPos).
PlayerDamage(playerPos) ==
  /\ LET r == CheckPlayerDamage(monsters, playerPos)
     IN /\ monsters' = r.monsters
        /\ log' = r.log
  /\ UNCHANGED << timers, spells, projectiles, effects, frozenMaterials, now,
                  nextId >>

\* monsterSystem.attackMonstersInRange(playerPos, playerAngle, range, damage).
Melee(playerPos, playerAngle, range, damage) ==
  /\ LET r == AttackMonstersInRange(monsters, playerPos, playerAngle, range, damage)
     IN monsters' = r.monsters /\ log' = r.log
  /\ UNCHANGED << timers, spells, projectiles, effects, frozenMaterials, now,
                  nextId >>

\* castSpell(name, casterPos, casterAngle, 0).  For an inherited name the
\* assignment spell.currentCd = spell.cooldown lands on the inherited object,
\* not in the spell table, and neither branch spawns anything.
CastSpell(name, casterPos, casterAngle) ==
  /\ \/ ~ CastAccepted(spells, name)
     \/ name # "frostbolt"
     \/ Len(projectiles) < MaxProjectiles
  /\ IF ~ CastAccepted(spells, name)
     THEN UNCHANGED << monsters, spells, projectiles, effects >>
     ELSE /\ spells' = IF name \in SpellNames
                        THEN [ spells EXCEPT ![name] = CooldownAfterCast(name) ]
                        ELSE spells
          /\ CASE name = "frostbolt" ->
                    /\ projectiles' = Append(projectiles,
                           NewProjectile(casterPos, casterAngle, SpellDefs[name],
                                         now))
                    /\ UNCHANGED << monsters, effects >>
               [] name = "frostNova" ->
                    /\ monsters' = SpawnFrostNova(monsters, casterPos,
                                                  SpellDefs[name], now)
                    /\ effects' = Append(effects, NovaEffect)
                    /\ UNCHANGED projectiles
               [] OTHER -> UNCHANGED << monsters, projectiles, effects >>
  /\ log' = << >>
  /\ UNCHANGED << timers, frozenMaterials, now, nextId >>

\* spellSystem.update(delta): cooldowns, projectiles, effects.
SpellUpdate(delta) ==
  /\ \E st \in { ProjectileLoop([ monsters |-> monsters,
                                    projectiles |-> projectiles,
                                    effects |-> effects, log |-> << >> ],
                                  Len(projectiles), delta, now) } :
       /\ monsters' = st.monsters
       /\ projectiles' = st.projectiles
       /\ effects' = UpdateEffects(st.effects, delta)
       /\ log' = st.log
  /\ spells' = DecayCooldowns(spells, delta)
  /\ UNCHANGED << timers, frozenMaterials, now, nextId >>

\* Wall-clock time passes between two calls.
Tick(step) ==
  /\ now' = now + step
  /\ log' = << >>
  /\ UNCHANGED << monsters, timers, spells, projectiles, effects,
                  frozenMaterials, nextId >>

\* The oldest setTimeout callback fires once its 5000 ms are over:
\* spawnMonster(scene, monsters).
Respawn(kind, pos, t) ==
  /\ timers # << >>
  /\ Head(timers) <= now
  /\ timers' = Tail(timers)
  /\ monsters' = Append(monsters, NewMonster(nextId, kind, pos, t))
  /\ nextId' = nextId + 1
  /\ log' = << >>
  /\ UNCHANGED << spells, projectiles, effects, frozenMaterials, now >>

\* Every call of the host counts against the length of the run.
Count == steps < MaxSteps /\ steps' = steps + 1 /\ UNCHANGED host

\* One call of the host: any operation, the clock advancing, or a timer firing.
Next ==
  \/ \E d \in Deltas : \E p \in UpdatePositions :
       \E offs \in [1..Len(monsters) -> WanderOffsets] :
         Count /\ MonsterUpdate(d, p, offs)
  \/ \E p \in DamagePositions : Count /\ PlayerDamage(p)
  \/ \E p \in MeleePositions : \E a \in MeleeAngles : \E r \in MeleeRanges :
       \E dmg \in MeleeDamages : Count /\ Melee(p, a, r, dmg)
  \/ \E c \in CastInputs : \E a \in CastAngles :
       Count /\ CastSpell(c[1], c[2], a)
  \/ \E d \in Deltas : Count /\ SpellUpdate(d)
  \/ \E s \in ClockSteps : Count /\ Tick(s)
  \/ \E k \in SpawnKinds : \E pos \in SpawnPoints : \E t \in SpawnTimes :
       Count /\ Respawn(k, pos, t)

Spec == Init /\ [][Next]_vars

\* The melee decision on its own: attackMonstersInRange called with the
\* player placed at an offset from the first monster of the registry.
ProbePos(v) == Pt(monsters[1].pos.x - v.x, monsters[1].pos.z - v.z)

NextMelee ==
  \E v \in ProbeOffsets : \E a \in ProbeAngles : \E r \in ProbeRanges :
    \E dmg \in ProbeDamages :
      /\ steps < MaxProbes
      /\ steps' = steps + 1
      /\ Melee(ProbePos(v), a, r, dmg)
      /\ UNCHANGED host

SpecMelee == Init /\ [][NextMelee]_vars

\* The spell system under spell updates that repeat for ever, with a bounded
\* number of casts in between.  The registry is not updated, the wall clock
\* stands still.
CastCall ==
  \E c \in CastInputs : \E a \in CastAngles :
    /\ steps < MaxCasts
    /\ steps' = steps + 1
    /\ CastSpell(c[1], c[2], a)
    /\ UNCHANGED host

SpellFrame == \E d \in Deltas : SpellUpdate(d) /\ UNCHANGED << steps, host >>

NextSpells == CastCall \/ SpellFrame

\* The host calls the spell update in every frame: it is never put off for
\* ever while it has something to do.
SpecSpells == Init /\ [][NextSpells]_vars /\ WF_vars(SpellFrame)

\* The chase: the player has walked to a standing place and stays there
\* while the host updates the monsters in every frame with the capped delta.
\* The player may cast a frost nova on the way (a second one is refused: its
\* cooldown is never decayed here), and the wall clock moves on while a
\* monster is frozen.
InitChase ==
  /\ InitSystems
  /\ \E p \in StandPlaces :
       host = [ InitHost EXCEPT !.x = p.x * 25, !.z = p.z * 25 ]

\* The character's position (mm) in the monsters' length unit (25 mm).
PlayerPos == Pt(host.x \div 25, host.z \div 25)

ChaseFrame ==
  \E d \in ClampedDeltas : \E offs \in [1..Len(monsters) -> StillOffsets] :
    MonsterUpdate(d, PlayerPos, offs) /\ UNCHANGED << steps, host >>

ChaseCast ==
  CastSpell("frostNova", PlayerPos, 0) /\ UNCHANGED << steps, host >>

ChaseTick ==
  \E s \in ThawSteps :
    /\ \E i \in 1..Len(monsters) : IsFrozen(monsters[i], now)
    /\ Tick(s)
    /\ UNCHANGED << steps, host >>

NextChase == ChaseFrame \/ ChaseCast \/ ChaseTick

\* The host updates the monsters in every frame: the update is never put
\* off for ever while it changes anything.
SpecChase == InitChase /\ [][NextChase]_vars /\ WF_vars(ChaseFrame)

\* Freezing and thawing: the player stands still, casts frost nova (a
\* bounded number of times, each once the cooldown has run out) and strikes;
\* the host updates the monsters and the spells, and the wall clock moves on
\* while a monster is frozen.
ThawFrame ==
  \E d \in LongDeltas : \E offs \in [1..Len(monsters) -> StillOffsets] :
    MonsterUpdate(d, PlayerPos, offs) /\ UNCHANGED << steps, host >>

ThawSpells == \E d \in CooldownDeltas : SpellUpdate(d) /\ UNCHANGED << steps, host >>

ThawCast ==
  /\ steps < MaxCasts
  /\ steps' = steps + 1
  /\ CastSpell("frostNova", PlayerPos, 0)
  /\ UNCHANGED host

ThawStrike ==
  \E a \in MeleeAngles : \E r \in MeleeRanges : \E dmg \in MeleeDamages :
    Melee(PlayerPos, a, r, dmg) /\ UNCHANGED << steps, host >>

NextThaw == ThawFrame \/ ThawSpells \/ ThawCast \/ ThawStrike \/ ChaseTick

\* The host updates the monsters in every frame, and the wall clock never
\* stands still for ever.
SpecThaw ==
  InitChase /\ [][NextThaw]_vars /\ WF_vars(ThawFrame) /\ WF_vars(ChaseTick)

\* The host's game loop on its own: one frame after another.
NextFrame ==
  \E e \in ElapsedTimes : \E key \in MoveKeys : \E sprint, jump \in BOOLEAN :
    /\ steps < MaxFrames
    /\ steps' = steps + 1
    /\ GameLoop(e, key, sprint, jump)
    /\ UNCHANGED << monsters, timers, spells, projectiles, effects,
                    frozenMaterials, now, nextId, log >>

SpecFrame == Init /\ [][NextFrame]_vars

\* A conversation: the player has walked to a place by the NPC; frames and
\* key events come in any order.  Whether the prompt and the box start out
\* hidden is up to the page, which is not part of the source: either.
InitTalk ==
  /\ InitSystems
  /\ \E p \in TalkPlaces : \E ph, bh \in BOOLEAN :
       host = [ InitHost EXCEPT !.x = p.x, !.z = p.z,
                                !.promptHidden = ph, !.boxHidden = bh ]

TalkFrame ==
  \E e \in ElapsedTimes : \E key \in MoveKeys : \E sprint \in BOOLEAN :
    /\ steps < MaxFrames
    /\ steps' = steps + 1
    /\ GameLoop(e, key, sprint, FALSE)
    /\ UNCHANGED << monsters, timers, spells, projectiles, effects,
                    frozenMaterials, now, nextId, log >>

NextTalk ==
  \/ TalkFrame
  \/ \E code \in KeyCodes : KeyDown(code)
  \/ \E code \in KeyCodes : KeyUp(code)

SpecTalk == InitTalk /\ [][NextTalk]_vars

\* ------------------------------------------------------------- properties

\* C1: in every state between operations, every monster of the registry has
\* hp = 0 exactly when its state is 'dead': none has hp 0 and is not dead,
\* none is dead with hp > 0.
C1_HpZeroIffDead ==
  \A i \in 1..Len(monsters) :
    (monsters[i].hp = 0) <=> (monsters[i].state = "dead")

\* A killed monster (hp 0, dead) next to a wounded one that is still alive.
C1_Witness ==
  /\ \E i \in 1..Len(monsters) :
       monsters[i].state = "dead" /\ monsters[i].hp = 0
  /\ \E i \in 1..Len(monsters) :
       /\ monsters[i].state # "dead"
       /\ monsters[i].hp > 0 /\ monsters[i].hp < monsters[i].maxHp

\* C2 (as amended): a castSpell that is accepted sets the spell's currentCd
\* to its cooldown.  For frostbolt that value is 0, so a second frostbolt cast
\* with no spell update in between is accepted as well (returns true); for
\* frostNova it is 8 s, so a second frostNova cast is rejected (returns false).
C2_SecondCastByCooldown ==
  [][ \A c \in CastInputs : \A a \in CastAngles :
        LET name == c[1] IN
        (CastSpell(name, c[2], a) /\ name \in { "frostbolt", "frostNova" }
           /\ spells[name] = 0)
        => /\ name = "frostbolt" =>
                spells'[name] = 0 /\ CastAccepted(spells', name)
           /\ name = "frostNova" =>
                spells'[name] = 160 /\ ~ CastAccepted(spells', name) ]_vars

\* Two frostbolts cast with no spell update in between: both were accepted,
\* both projectiles are in flight and have not advanced yet.
C2_Witness ==
  /\ Len(projectiles) = 2
  /\ \A j \in 1..2 : projectiles[j].traveled = 0
  /\ spells["frostbolt"] = 0

\* C2 as stated: after an accepted frostbolt cast a second frostbolt cast is
\* rejected.
C2_SecondFrostboltRejected ==
  [][ \A c \in CastInputs : \A a \in CastAngles :
        (CastSpell(c[1], c[2], a) /\ c[1] = "frostbolt"
           /\ spells["frostbolt"] = 0)
        => ~ CastAccepted(spells', "frostbolt") ]_vars

\* C3: castSpell with an unknown spell name, or with a spell whose currentCd
\* is > 0, returns false and changes nothing: no monster, no projectile, no
\* effect and no spell's currentCd.
C3_RejectedCastIsNoOp ==
  [][ \A c \in CastInputs : \A a \in CastAngles :
        LET name == c[1]
            refused == IF name \in { "frostbolt", "frostNova" }
                       THEN spells[name] > 0 ELSE TRUE
        IN (CastSpell(name, c[2], a) /\ refused)
           => /\ ~ CastAccepted(spells, name)
              /\ UNCHANGED << monsters, projectiles, effects, spells >> ]_vars

\* The unit-square vector of the facing angle a (units of pi/4): the angle is
\* measured from the +z axis towards +x, as Math.atan2(dx, dz) measures it.
FaceX(a) == CASE a % 8 \in { 1, 2, 3 } -> 1 [] a % 8 \in { 5, 6, 7 } -> -1
              [] OTHER -> 0
FaceZ(a) == CASE a % 8 \in { 7, 0, 1 } -> 1 [] a % 8 \in { 3, 4, 5 } -> -1
              [] OTHER -> 0

\* The direction from p to monster m deviates from the facing angle a by less
\* than pi/2: the two vectors have a positive scalar product.
FacingWithinQuarterTurn(m, p, a) ==
  (m.pos.x - p.x) * FaceX(a) + (m.pos.z - p.z) * FaceZ(a) > 0

\* C4 (as amended): attackMonstersInRange reduces the hp of a monster if and
\* only if the monster is not dead, its planar distance to the player is at
\* most range (a monster at exactly range is damaged) and the angular
\* deviation of its direction from playerAngle is strictly less than pi/2.
C4_MeleeDamagesIff ==
  [][ \A v \in ProbeOffsets : \A a \in ProbeAngles : \A r \in ProbeRanges :
      \A dmg \in ProbeDamages :
        LET p == ProbePos(v) IN
        Melee(p, a, r, dmg)
        => \A i \in 1..Len(monsters) :
             (monsters'[i].hp < monsters[i].hp)
             <=> /\ monsters[i].state # "dead"
                 /\ DistSq(monsters[i].pos.x - p.x, monsters[i].pos.z - p.z)
                      <= r * r
                 /\ FacingWithinQuarterTurn(monsters[i], p, a) ]_vars

\* A monster was struck from exactly the range, and lost hp by it.
C4_Witness ==
  \E k \in 1..Len(log) :
    /\ log[k].op = "melee"
    /\ log[k].distSq = log[k].range * log[k].range
    /\ \E i \in 1..Len(monsters) :
         monsters[i].id = log[k].id /\ monsters[i].hp < monsters[i].maxHp

\* C4 as stated: the distance must be strictly less than range, a monster at
\* exactly range is not damaged.
C4_StrictRange ==
  [][ \A v \in ProbeOffsets : \A a \in ProbeAngles : \A r \in ProbeRanges :
      \A dmg \in ProbeDamages :
        LET p == ProbePos(v) IN
        Melee(p, a, r, dmg)
        => \A i \in 1..Len(monsters) :
             (monsters'[i].hp < monsters[i].hp)
             <=> /\ monsters[i].state # "dead"
                 /\ DistSq(monsters[i].pos.x - p.x, monsters[i].pos.z - p.z)
                      < r * r
                 /\ FacingWithinQuarterTurn(monsters[i], p, a) ]_vars

\* The monsters of the registry whose hp, state or slowUntil a step changes
\* (spell updates and casts leave the registry's order and length alone).
Touched ==
  { i \in 1..Len(monsters) :
      \/ monsters'[i].hp # monsters[i].hp
      \/ monsters'[i].state # monsters[i].state
      \/ monsters'[i].slowUntil # monsters[i].slowUntil }

\* The projectiles whose traveled distance after advancing by delta is
\* greater than their range.
OverRange(delta) ==
  { j \in 1..Len(projectiles) :
      projectiles[j].traveled + projectiles[j].speed * delta
        > projectiles[j].range }

\* C5 (as amended): a projectile whose traveled distance after advancing is
\* greater than its range is removed in that spell update, so no projectile
\* in the list is ever beyond its range; but the hit test runs before the
\* range test, so in that last update it still damages a monster its advanced
\* position touches.  A spell update changes a monster only where the
\* advanced position of some projectile touches it, and a projectile that
\* hits had not exceeded its range before that update.
C5_OverRangeRemovedHitFirst ==
  /\ [](\A j \in 1..Len(projectiles) :
          projectiles[j].traveled <= projectiles[j].range)
  /\ [][ \A d \in Deltas :
          SpellUpdate(d)
          => /\ Len(projectiles') <= Len(projectiles) - Cardinality(OverRange(d))
             /\ \A i \in Touched :
                  \E j \in 1..Len(projectiles) :
                    ProjectileTouches(Advance(projectiles[j], d), monsters[i])
             /\ \A k \in 1..Len(log') :
                  log'[k].victims # << >>
                    => log'[k].before <= log'[k].range /\ log'[k].removed ]_vars

\* A projectile hit a monster in the update in which its traveled distance
\* came to exceed its range.
C5_Witness ==
  \E k \in 1..Len(log) :
    /\ log[k].op = "bolt"
    /\ log[k].traveled > log[k].range
    /\ log[k].victims # << >>
    /\ log[k].removed

\* C5 as stated: in a spell update in which every projectile's traveled
\* distance after advancing is greater than its range, no monster's hp,
\* state or slowUntil changes.
C5_OverRangeNeverDamages ==
  [][ \A d \in Deltas :
        (SpellUpdate(d) /\ OverRange(d) = 1..Len(projectiles))
        => Touched = {} ]_vars

\* C6: a projectile that applies damage is removed from the projectile list
\* in the same spell update; it damages one monster, once; and each hit creates
\* exactly one impact effect.  In a spell update the projectiles that hit are
\* exactly as many as leave the list by a hit, the monsters changed are
\* exactly their victims, each loses the bolt's damage once per bolt that hit
\* it (or dies), and one impact effect per hit is appended (when the frame is
\* short enough for a 0.6 s effect to outlast it, it is in the list after).
C6_HitRemovesProjectile ==
  [][ \A d \in Deltas :
        SpellUpdate(d)
        => LET hits == { k \in 1..Len(log') : log'[k].victims # << >> }
               gone == { k \in 1..Len(log') : log'[k].removed }
               HitsOn(id) == Cardinality({ k \in hits : log'[k].victims[1] = id })
           IN /\ \A k \in hits :
                   /\ Len(log'[k].victims) = 1
                   /\ log'[k].impacts = 1
                   /\ log'[k].removed
              /\ \A k \in 1..Len(log') \ hits : log'[k].impacts = 0
              /\ Len(projectiles') = Len(projectiles) - Cardinality(gone)
              /\ { monsters[i].id : i \in Touched }
                   = { log'[k].victims[1] : k \in hits }
              /\ \A i \in 1..Len(monsters) :
                   \/ monsters'[i].hp
                        = monsters[i].hp - 25 * HitsOn(monsters[i].id)
                   \/ /\ monsters'[i].hp = 0
                      /\ monsters[i].hp <= 25 * HitsOn(monsters[i].id)
                      /\ HitsOn(monsters[i].id) > 0
              /\ d <= IMPACT_MAX_TIME
                   => Cardinality({ e \in 1..Len(effects') :
                                      /\ effects'[e].type = "impact"
                                      /\ effects'[e].time = d })
                        = Cardinality(hits) ]_vars

\* A projectile hit a monster, left the list in that update, and its impact
\* effect is in the effect list.
C6_Witness ==
  /\ \E k \in 1..Len(log) :
       log[k].op = "bolt" /\ log[k].victims # << >> /\ log[k].removed
  /\ \E e \in 1..Len(effects) : effects[e].type = "impact"
  /\ \E i \in 1..Len(monsters) :
       monsters[i].hp < monsters[i].maxHp /\ monsters[i].slowUntil > 0

\* The identities in the registry before and after a step.
Staying == Ids(monsters) \cap Ids(monsters')

\* The step is a call of monsterSystem.update with frame delta d.  Such a
\* step advances every monster's clock by d, which is looked at first.
IsMonsterUpdateBy(d) ==
  /\ \A id \in Staying :
       ById(monsters', id).time = AdvanceTime(ById(monsters, id).time, d)
  /\ \E p \in UpdatePositions :
       \E offs \in [1..Len(monsters) -> WanderOffsets] :
         MonsterUpdate(d, p, offs)

\* The step is a call of monsterSystem.update with some inputs.
IsMonsterUpdate == \E d \in Deltas : IsMonsterUpdateBy(d)

\* C7 (as amended): at the end of every overlay-wrapped monster update in
\* which a monster is marked frozen, its (x, z) position is the snapshot
\* _frozenPos: the position it had at the start of the first update that
\* marked it frozen (not the position where the slow was applied), kept for
\* as long as the mark stays, whatever chase, wandering or knockback did to
\* it after the snapshot was taken.
C7_FrozenAtSnapshot ==
  [][ \A id \in Staying :
        LET m == ById(monsters, id)
            n == ById(monsters', id)
        IN (n.frozen /\ IsMonsterUpdate)
           => /\ n.frozenPos = << n.pos >>
              /\ n.pos = IF m.frozen THEN m.frozenPos[1] ELSE m.pos ]_vars

\* A monster is held frozen at a place other than the one where the slow in
\* force was applied to it.
C7_Witness ==
  \E i \in 1..Len(monsters) :
    /\ monsters[i].frozen
    /\ monsters[i].pos = monsters[i].frozenPos[1]
    /\ monsters[i].slowPos # monsters[i].frozenPos

\* C7 as stated: at the end of a monster update in which a monster is marked
\* frozen, it stands where it stood when the slow was applied.
C7_FrozenWhereSlowed ==
  [][ \A i \in 1..Len(monsters') :
        (monsters'[i].frozen /\ IsMonsterUpdate)
          => << monsters'[i].pos >> = monsters'[i].slowPos ]_vars

\* C8: 'dead' is terminal.  Whatever the step (monster update, melee, cast,
\* spell update, respawn), a monster that is dead and stays in the registry
\* is dead after it, with hp 0 and the same slowUntil and (x, z) position.
C8_DeadIsTerminal ==
  [][ \A id \in Staying :
        LET m == ById(monsters, id)
            n == ById(monsters', id)
        IN m.state = "dead"
           => /\ n.state = "dead"
              /\ n.hp = 0
              /\ n.slowUntil = m.slowUntil
              /\ n.pos = m.pos ]_vars

\* A monster that died while slowed, with the slow still in force, has been
\* through a monster update as a dead monster.
C8_Witness ==
  \E i \in 1..Len(monsters) :
    /\ monsters[i].state = "dead"
    /\ monsters[i].deathTime > 0
    /\ monsters[i].slowUntil > now

\* The removal threshold of a monster's kind: 1.5 s, 4 s for the boss.
Threshold(m) == IF m.isBoss THEN 80 ELSE 30

\* The identities a step takes out of the registry, and those it adds.
Leaving == Ids(monsters) \ Ids(monsters')
Entering == Ids(monsters') \ Ids(monsters)

\* What a step does to the death clock of the monsters that stay ...
DeathClockOfStaying ==
  \A id \in Staying :
    LET m == ById(monsters, id)
        n == ById(monsters', id)
    IN /\ (m.state # "dead" /\ n.state = "dead") => n.deathTime = 0
       /\ m.state = "dead"
            => /\ \A d \in Deltas :
                    IsMonsterUpdateBy(d)
                    => /\ n.deathTime = m.deathTime + d
                       /\ n.deathTime > m.deathTime
                       /\ n.deathTime <= Threshold(m)
               /\ ~ IsMonsterUpdate => n.deathTime = m.deathTime

\* ... and which monsters it takes out of the registry.
DeathClockOfLeaving ==
  \A id \in Leaving :
    LET m == ById(monsters, id)
    IN /\ m.state = "dead"
       /\ m.deathTime <= Threshold(m)
       /\ \E d \in Deltas :
            m.deathTime + d > Threshold(m) /\ IsMonsterUpdateBy(d)

\* C9: deathTime is 0 at the transition into 'dead'; every monster update
\* raises a dead monster's deathTime by delta (> 0) and no other step changes
\* it; the monster leaves the registry in the first update that brings
\* deathTime above its kind's threshold (1.5 s, 4 s for the boss): a monster
\* leaves only so, none stays with deathTime above the threshold, and an
\* identity that left never comes back.
C9_DeathClock ==
  /\ [](\A i \in 1..Len(monsters) :
          /\ monsters[i].id < nextId
          /\ monsters[i].state = "dead"
               => monsters[i].deathTime <= Threshold(monsters[i]))
  /\ [][DeathClockOfStaying]_vars
  /\ [][DeathClockOfLeaving]_vars
  /\ [][\A id \in Entering : id = nextId /\ nextId' > nextId]_vars

\* A normal monster and the boss have both died and been removed.
C9_Witness ==
  /\ timers # << >>
  /\ \A i \in 1..Len(monsters) : ~ monsters[i].isBoss
  /\ Len(monsters) < NumNormals + 1

\* C10: every removal of a non-boss monster sets exactly one timer, due the
\* fixed delay (5 s) after the removal; the removal of the boss sets none;
\* nothing else sets a timer.  A timer fires no earlier than it is due, is
\* used up by firing, and appends exactly one monster, never a boss, to the
\* registry; nothing else adds a monster.  The only boss there ever is is
\* the initial one.
C10_OneRespawnPerRemoval ==
  /\ [](\A i \in 1..Len(monsters) :
          monsters[i].isBoss => monsters[i].id = NumNormals + 1)
  /\ [][ Entering = {}
          => /\ Len(timers') = Len(timers)
                  + Cardinality({ id \in Leaving : ~ ById(monsters, id).isBoss })
             /\ SubSeq(timers', 1, Len(timers)) = timers
             /\ \A k \in (Len(timers) + 1)..Len(timers') :
                  timers'[k] = now + 100 ]_vars
  /\ [][ Entering # {}
          => /\ Leaving = {}
             /\ Cardinality(Entering) = 1
             /\ timers # << >>
             /\ Head(timers) <= now
             /\ timers' = Tail(timers)
             /\ Len(monsters') = Len(monsters) + 1
             /\ SubSeq(monsters', 1, Len(monsters)) = monsters
             /\ ~ monsters'[Len(monsters')].isBoss ]_vars

\* A monster spawned by a timer is in the registry and the timer is used up.
C10_Witness ==
  /\ \E i \in 1..Len(monsters) :
       monsters[i].id > NumNormals + 1 /\ ~ monsters[i].isBoss
  /\ timers = << >>
  /\ now >= 100

\* The step is a call of monsterSystem.update with frame delta d and the
\* player at p.
IsMonsterUpdateAt(d, p) ==
  /\ \A id \in Staying :
       ById(monsters', id).time = AdvanceTime(ById(monsters, id).time, d)
  /\ \E offs \in [1..Len(monsters) -> WanderOffsets] :
       MonsterUpdate(d, p, offs)

\* The state the distance alone prescribes: the squared planar distance dsq
\* against the attack range (2 m, boss 8 m) and the aggro range (12 m, boss
\* 40 m).
StateByDistance(isBoss, dsq) ==
  LET attackRange == IF isBoss THEN 320 ELSE 80
      aggroRange == IF isBoss THEN 1600 ELSE 480
  IN IF dsq < attackRange * attackRange THEN "attack"
     ELSE IF dsq < aggroRange * aggroRange THEN "chase"
     ELSE "idle"

\* C11: after every monster update, the state of each monster that is not
\* dead is the one its planar distance d to the player at the start of that
\* update prescribes -- 'attack' iff d < attackRange, 'chase' iff
\* attackRange <= d < aggroRange, 'idle' iff d >= aggroRange -- whatever its
\* state was before.
C11_StateByDistance ==
  [][ \A d \in Deltas : \A p \in UpdatePositions :
        IsMonsterUpdateAt(d, p)
        => \A id \in Staying :
             LET m == ById(monsters, id)
                 n == ById(monsters', id)
             IN m.state # "dead"
                => n.state = StateByDistance(m.isBoss,
                                DistSq(p.x - m.pos.x, p.z - m.pos.z)) ]_vars

\* A normal monster that chased the player from 3 m, was still chasing at
\* exactly 2 m, and is in state 'attack' at 1 m; the boss, out of aggro range
\* of that player, is idle.
C11_Witness ==
  /\ \E i \in 1..Len(monsters) :
       /\ ~ monsters[i].isBoss
       /\ monsters[i].state = "attack"
       /\ monsters[i].hp = monsters[i].maxHp
       /\ monsters[i].pos = Pt(0, 720)
  /\ \E i \in 1..Len(monsters) :
       monsters[i].isBoss /\ monsters[i].state = "idle"

\* C12: for every monster, whatever the step (melee, cast, spell update,
\* monster update, player-damage check, respawn), hp does not increase and is
\* never negative -- a blow larger than the hp left leaves hp 0 -- and the
\* monster is dead after the very step in which its hp reaches 0.
C12_HpNeverIncreases ==
  /\ [](\A i \in 1..Len(monsters) : monsters[i].hp >= 0)
  /\ [][ \A id \in Staying :
           LET m == ById(monsters, id)
               n == ById(monsters', id)
           IN /\ n.hp <= m.hp
              /\ (m.hp > 0 /\ n.hp = 0) => n.state = "dead"
              /\ (m.state # "dead" /\ n.state = "dead") => n.hp = 0 ]_vars

\* A normal monster (60 hp) that a spell had wounded and slowed was killed
\* by a blow larger than the hp it had left: its hp is 0, not negative.
C12_Witness ==
  \E i \in 1..Len(monsters) :
    /\ ~ monsters[i].isBoss
    /\ monsters[i].maxHp = 60
    /\ monsters[i].slowUntil # 0
    /\ monsters[i].state = "dead"
    /\ monsters[i].hp = 0

\* A monster as spawnMonster / spawnBoss leaves it: full hp, idle, no attack
\* cooldown, no death clock, no slow.
Fresh(m) ==
  /\ m.hp = m.maxHp
  /\ m.maxHp > 0
  /\ m.state = "idle"
  /\ m.attackCooldown = 0
  /\ m.deathTime = 0
  /\ m.slowUntil = 0

\* C13: every monster of the registry has 0 <= hp <= maxHp in every
\* reachable state; the monsters of the initial registry and every monster a
\* respawn adds start with hp = maxHp > 0, state 'idle', attackCooldown 0,
\* deathTime 0 and no slow.
C13_HpWithinBounds ==
  /\ [](\A i \in 1..Len(monsters) :
          /\ 0 <= monsters[i].hp
          /\ monsters[i].hp <= monsters[i].maxHp
          /\ steps = 0 => Fresh(monsters[i]))
  /\ [][ \A id \in Entering : Fresh(ById(monsters', id)) ]_vars

\* A monster added by a respawn timer is in the registry, as spawned.
C13_Witness ==
  \E i \in 1..Len(monsters) :
    /\ monsters[i].id > NumNormals + 1
    /\ Fresh(monsters[i])
    /\ steps > 0

\* What an accepted cast of a spell of the table leaves behind: a new
\* projectile for frostbolt, a new nova effect for frostNova.
CastTookEffect(name) ==
  \/ name = "frostbolt" /\ Len(projectiles') = Len(projectiles) + 1
  \/ name = "frostNova" /\ Len(effects') = Len(effects) + 1

\* C14: for every spell of the table (frostbolt: cooldown 0, frostNova:
\* cooldown 8 s), 0 <= currentCd <= cooldown in every reachable state; a cast
\* takes effect only when the spell's currentCd is 0, and then currentCd is
\* exactly the cooldown and the other spell's currentCd is untouched; a
\* refused cast leaves every currentCd alone; a spell update by delta sets
\* every currentCd to max(0, currentCd - delta); no other step changes one.
C14_CooldownWithinBounds ==
  /\ [](\A n \in { "frostbolt", "frostNova" } :
          /\ 0 <= spells[n]
          /\ spells[n] <= (IF n = "frostbolt" THEN 0 ELSE 160))
  /\ [][ \A c \in CastInputs : \A a \in CastAngles :
           LET name == c[1] IN
           (CastSpell(name, c[2], a) /\ name \in { "frostbolt", "frostNova" })
           => /\ CastTookEffect(name) <=> spells[name] = 0
              /\ spells[name] = 0
                   => spells'[name] = (IF name = "frostbolt" THEN 0 ELSE 160)
              /\ spells[name] # 0 => spells'[name] = spells[name]
              /\ \A n \in { "frostbolt", "frostNova" } \ { name } :
                   spells'[n] = spells[n] ]_vars
  /\ [][ \A d \in Deltas :
           SpellUpdate(d)
           => \A n \in { "frostbolt", "frostNova" } :
                spells'[n] = (IF spells[n] > d THEN spells[n] - d ELSE 0) ]_vars
  /\ [][ spells' # spells
           => \/ \E d \in Deltas : SpellUpdate(d)
              \/ \E c \in CastInputs : \E a \in CastAngles :
                   CastSpell(c[1], c[2], a) ]_vars

\* Frost nova was cast and one short spell update has run: its cooldown has
\* decayed by the frame's delta, its effect is still playing, and
\* frostbolt's currentCd stayed at the floor 0.
C14_Witness ==
  /\ spells["frostNova"] = 150
  /\ spells["frostbolt"] = 0
  /\ \E e \in 1..Len(effects) :
       effects[e].type = "frostNova" /\ effects[e].time = 10

\* C15: a frost nova cast that is accepted changes the registry within the
\* cast itself: every monster that is not dead and whose planar distance to
\* the caster is strictly less than the nova range (6 m) loses the nova
\* damage (15) and gets slowUntil = now + 4 s, and is killed (hp 0, dead,
\* deathTime 0) when that brings its hp to 0 or below; every other monster --
\* dead, or at distance >= range -- is left exactly as it was.
C15_NovaHitsWithinRange ==
  [][ \A c \in CastInputs : \A a \in CastAngles :
        (c[1] = "frostNova" /\ spells["frostNova"] = 0
           /\ CastSpell(c[1], c[2], a))
        => /\ Len(monsters') = Len(monsters)
           /\ \A i \in 1..Len(monsters) :
                LET m == monsters[i]
                    n == monsters'[i]
                    dsq == DistSq(m.pos.x - c[2].x, m.pos.z - c[2].z)
                IN IF m.state # "dead" /\ dsq < 240 * 240
                   THEN /\ n.slowUntil = now + 80
                        /\ n.pos = m.pos
                        /\ IF m.hp - 15 <= 0
                           THEN n.hp = 0 /\ n.state = "dead" /\ n.deathTime = 0
                           ELSE n.hp = m.hp - 15 /\ n.state = m.state
                   ELSE n = m ]_vars

\* Right after a frost nova: one monster has lost the nova damage and is
\* slowed, a dead monster and a monster out of range carry no trace of it.
C15_Witness ==
  /\ spells["frostNova"] = 160
  /\ \E e \in 1..Len(effects) :
       effects[e].type = "frostNova" /\ effects[e].time = 0
  /\ \E i \in 1..Len(monsters) :
       /\ monsters[i].state # "dead"
       /\ monsters[i].hp = monsters[i].maxHp - 15
       /\ monsters[i].slowUntil = now + 80
  /\ \E i \in 1..Len(monsters) :
       monsters[i].state = "dead" /\ monsters[i].slowUntil = 0

\* The monsters whose slowUntil a step changes.
Slowed ==
  { id \in Staying : ById(monsters', id).slowUntil # ById(monsters, id).slowUntil }

\* C16 (as amended): slowUntil is the wall-clock time at which the slow is
\* applied plus the spell's slowDuration.  For frost nova that is the time
\* of the cast (plus 4 s); for frostbolt it is the time of the spell update
\* in which the projectile hits (plus 3 s), however long before the
\* projectile was cast.  No other step writes slowUntil.
C16_SlowFromApplication ==
  /\ [][ \A c \in CastInputs : \A a \in CastAngles :
           (c[1] = "frostNova" /\ CastSpell(c[1], c[2], a))
           => \A id \in Slowed : ById(monsters', id).slowUntil = now + 80 ]_vars
  /\ [][ \A d \in Deltas :
           SpellUpdate(d)
           => /\ \A id \in Slowed : ById(monsters', id).slowUntil = now + 60
              /\ \A k \in 1..Len(log') :
                   \A j \in 1..Len(log'[k].victims) :
                     /\ log'[k].castAt <= now
                     /\ ById(monsters', log'[k].victims[j]).slowUntil = now + 60 ]_vars
  /\ [][ Slowed # {}
           => \/ \E d \in Deltas : SpellUpdate(d)
              \/ \E c \in CastInputs : \E a \in CastAngles :
                   c[1] = "frostNova" /\ CastSpell(c[1], c[2], a) ]_vars

\* A frostbolt cast at one wall-clock time hit a monster at a later one:
\* the monster's slowUntil counts from the hit.
C16_Witness ==
  \E k \in 1..Len(log) :
    /\ log[k].op = "bolt"
    /\ log[k].victims # << >>
    /\ log[k].castAt < now
    /\ ById(monsters, log[k].victims[1]).slowUntil = now + 60

\* C16 as stated: the slowUntil a spell sets is the wall-clock time at which
\* that spell was cast plus its slowDuration -- for a frostbolt, the time its
\* projectile was cast.
C16_SlowFromCast ==
  [][ \A d \in Deltas :
        SpellUpdate(d)
        => \A k \in 1..Len(log') :
             \A j \in 1..Len(log'[k].victims) :
               ById(monsters', log'[k].victims[j]).slowUntil
                 = log'[k].castAt + 60 ]_vars

\* The monsters whose attackCooldown a step raises: those checkPlayerDamage
\* counted.
Contributors ==
  { id \in Staying :
      ById(monsters', id).attackCooldown > ById(monsters, id).attackCooldown }

\* The damage (type.damage) of the monsters of a set of identities, added up.
RECURSIVE DamageOf(_)
DamageOf(S) ==
  IF S = {} THEN 0
  ELSE LET id == CHOOSE x \in S : TRUE
       IN ById(monsters, id).type.damage + DamageOf(S \ { id })

\* What checkPlayerDamage with the player at p does: it counts a monster
\* only if it is in state 'attack' (so not dead), with attackCooldown 0 and
\* closer than its attack range (2 m, boss 8 m); a counted monster gets
\* attackCooldown 1.5 s, and had not been counted during the last 1.5 s of
\* monster updates; the value returned is the damage of those counted.
DamageOnlyWhenReady(p) ==
  /\ \A id \in Contributors :
       LET m == ById(monsters, id)
           n == ById(monsters', id)
           r == IF m.isBoss THEN 320 ELSE 80
       IN /\ m.state = "attack"
          /\ m.attackCooldown = 0
          /\ DistSq(p.x - m.pos.x, p.z - m.pos.z) < r * r
          /\ n.attackCooldown = 30
          /\ m.sinceDamage = Never \/ m.sinceDamage >= 30
  /\ { log'[k].id : k \in 1..Len(log') } = Contributors
  /\ \A k \in 1..Len(log') : log'[k].total = DamageOf(Contributors)

\* What any step does to attackCooldown: it rises only in checkPlayerDamage
\* and falls only in a monster update, by the update's delta (not below 0).
CooldownMoves ==
  \A id \in Staying :
    LET m == ById(monsters, id)
        n == ById(monsters', id)
    IN /\ n.attackCooldown > m.attackCooldown
            => \E p \in DamagePositions : PlayerDamage(p)
       /\ n.attackCooldown < m.attackCooldown
            => \E d \in Deltas :
                 /\ IsMonsterUpdateBy(d)
                 /\ n.attackCooldown
                      = (IF m.attackCooldown > d THEN m.attackCooldown - d ELSE 0)

\* C17: a monster is counted by checkPlayerDamage only when its state is
\* 'attack', its attackCooldown is 0 and its planar distance to the player is
\* below its attack range; being counted sets attackCooldown to 1.5 s;
\* attackCooldown is never negative and falls only by the delta of a monster
\* update; so between two contributions of one monster at least 1.5 s of
\* monster updates elapse, and a dead monster is never counted.
C17_DamageByCooldown ==
  /\ [](\A i \in 1..Len(monsters) : monsters[i].attackCooldown >= 0)
  /\ [][ \A p \in DamagePositions : PlayerDamage(p) => DamageOnlyWhenReady(p) ]_vars
  /\ [][CooldownMoves]_vars

\* A monster has just dealt damage to the player for the second time, a full
\* attack cooldown of monster updates after the first.
C17_Witness ==
  \E k \in 1..Len(log) :
    /\ log[k].op = "damage"
    /\ log[k].since = 30
    /\ log[k].total > 0
    /\ ById(monsters, log[k].id).attackCooldown = 30

\* Closer to the player at p than the monster's attack range (2 m, boss 8 m).
WithinAttackRange(m, p) ==
  LET r == IF m.isBoss THEN 320 ELSE 80
  IN DistSq(p.x - m.pos.x, p.z - m.pos.z) < r * r

\* C18: freezing does not pacify.  A monster that the wrapped update marks
\* frozen and that is closer to the player than its attack range leaves that
\* update in state 'attack', held at its snapshot; and a monster that is
\* frozen (marked, slow still in force), in state 'attack', with no attack
\* cooldown and within attack range is counted by checkPlayerDamage like any
\* other: its damage is in the total, its attackCooldown is set.
C18_FrozenStillAttacks ==
  /\ [][ \A d \in Deltas : \A p \in UpdatePositions :
           IsMonsterUpdateAt(d, p)
           => \A id \in Staying :
                LET m == ById(monsters, id)
                    n == ById(monsters', id)
                IN (n.frozen /\ WithinAttackRange(m, p))
                   => n.state = "attack" /\ n.frozenPos = << n.pos >> ]_vars
  /\ [][ \A p \in DamagePositions :
           PlayerDamage(p)
           => \A id \in Staying :
                LET m == ById(monsters, id)
                    n == ById(monsters', id)
                IN (m.frozen /\ IsFrozen(m, now) /\ m.state = "attack"
                      /\ m.attackCooldown = 0 /\ WithinAttackRange(m, p))
                   => /\ n.attackCooldown = 30
                      /\ \E k \in 1..Len(log') :
                           /\ log'[k].id = id
                           /\ log'[k].total >= m.type.damage ]_vars

\* A frozen monster, its slow still in force, has just dealt its damage to
\* the player.
C18_Witness ==
  \E k \in 1..Len(log) :
    /\ log[k].op = "damage"
    /\ log[k].total > 0
    /\ LET m == ById(monsters, log[k].id)
       IN /\ m.frozen
          /\ IsFrozen(m, now)
          /\ m.state = "attack"
          /\ m.pos = m.frozenPos[1]

\* C19: the delta every frame of the game loop uses is clamped: whatever
\* getDelta returned (the real time since the previous frame), 0 <= delta <=
\* 0.05 s; it is the elapsed time itself when that is at most 0.05 s, and
\* the character moves by no more than sprint speed times 0.05 s per frame.
C19_DeltaClamped ==
  /\ [](0 <= host.delta /\ host.delta <= 50)
  /\ [][ host' # host
           => /\ 0 <= host'.delta /\ host'.delta <= 50
              /\ host'.elapsed <= 50 => host'.delta = host'.elapsed
              /\ host'.elapsed > 50 => host'.delta = 50
              /\ Abs(host'.x - host.x) + Abs(host'.z - host.z) <= 10 * 50 ]_vars

\* A frame that came a full second after the previous one used delta 0.05 s
\* and moved the sprinting character by half a metre.
C19_Witness ==
  /\ host.elapsed = 1000
  /\ host.delta = 50
  /\ host.x = 500

\* The move from position a to position b goes along the vector (dx, dz), in
\* its direction, over the knockback distance 0.8 m (up to the rounding of
\* the diagonal's components to the unit).
KnockedAlong(a, b, dx, dz) ==
  LET mx == b.x - a.x
      mz == b.z - a.z
  IN /\ mx * dz = mz * dx
     /\ mx * dx + mz * dz > 0
     /\ DistSq(mx, mz) <= 32 * 32
     /\ DistSq(mx, mz) > 31 * 31

\* What attackMonstersInRange from p does to the positions: a monster that
\* loses hp at more than 0.1 m from the attacker is pushed 0.8 m straight
\* away from the attacker; one hit at 0.1 m or less, and every monster not
\* hit, stays where it is.
KnockbackOfHit(p) ==
  \A i \in 1..Len(monsters) :
    LET m == monsters[i]
        n == monsters'[i]
        dx == m.pos.x - p.x
        dz == m.pos.z - p.z
    IN IF n.hp < m.hp /\ DistSq(dx, dz) > 4 * 4
       THEN KnockedAlong(m.pos, n.pos, dx, dz)
       ELSE n.pos = m.pos

\* C20 (as amended): every monster hit by attackMonstersInRange at a planar
\* distance of more than 0.1 m from the attacker is displaced, in the call
\* that damages it, by the fixed knockback distance (0.8 m) along the
\* attacker-to-monster axis, away from the attacker; a monster hit at 0.1 m
\* or less is damaged but not displaced.
C20_KnockbackBeyondMinDist ==
  [][ \A v \in ProbeOffsets : \A a \in ProbeAngles : \A r \in ProbeRanges :
      \A dmg \in ProbeDamages :
        Melee(ProbePos(v), a, r, dmg) => KnockbackOfHit(ProbePos(v)) ]_vars

\* A monster struck from 0.1 m has lost hp and stands where it was spawned,
\* and the log shows the strike at that distance.
C20_Witness ==
  \E k \in 1..Len(log) :
    /\ log[k].op = "melee"
    /\ log[k].distSq = 4 * 4
    /\ LET m == ById(monsters, log[k].id)
       IN m.hp < m.maxHp /\ m.pos \in SpawnPoints

\* C20 as stated: every monster hit by attackMonstersInRange is displaced by
\* the knockback distance, away from the attacker, in that call.
C20_EveryHitKnocksBack ==
  [][ \A v \in ProbeOffsets : \A a \in ProbeAngles : \A r \in ProbeRanges :
      \A dmg \in ProbeDamages :
        LET p == ProbePos(v) IN
        Melee(p, a, r, dmg)
        => \A i \in 1..Len(monsters) :
             monsters'[i].hp < monsters[i].hp
             => KnockedAlong(monsters[i].pos, monsters'[i].pos,
                             monsters[i].pos.x - p.x, monsters[i].pos.z - p.z) ]_vars

\* The step changes the registry and nothing a monster update leaves alone.
MayBeMonsterUpdate ==
  /\ monsters' # monsters
  /\ UNCHANGED << spells, projectiles, effects, now, nextId >>

\* Every monster of the registry went through one iteration of an update by
\* delta d, once: its clock is d further; a dead one's deathTime is d
\* higher, and it left the registry exactly if that is above its threshold;
\* one that is not dead kept deathTime and had its attackCooldown lowered by
\* d once.  The monsters that stay keep their order.
ProcessedOnce(d) ==
  /\ \A i \in 1..Len(monsters) :
       LET m == monsters[i] IN
       IF m.id \in Leaving
       THEN m.state = "dead" /\ m.deathTime + d > Threshold(m)
       ELSE LET n == ById(monsters', m.id)
            IN /\ n.time = (m.time + d) % 80
               /\ IF m.state = "dead"
                  THEN /\ n.deathTime = m.deathTime + d
                       /\ n.deathTime <= Threshold(m)
                  ELSE /\ n.deathTime = m.deathTime
                       /\ n.attackCooldown
                            = (IF m.attackCooldown > d
                               THEN m.attackCooldown - d ELSE 0)
  /\ Len(monsters') = Cardinality(Staying)
  /\ \A i, j \in 1..Len(monsters') :
       i < j => \E a, b \in 1..Len(monsters) :
                  a < b /\ monsters[a].id = monsters'[i].id
                        /\ monsters[b].id = monsters'[j].id

\* C21: a monster update processes every monster that is in the registry at
\* its start exactly once, also when it removes some of them; it adds none.
\* Monsters enter the registry only by a respawn timer firing, which is a
\* step of its own: it leaves the monsters already there untouched, and no
\* update, melee, cast or spell update adds one.
C21_EachMonsterOnce ==
  /\ [][ \A d \in Deltas : \A p \in UpdatePositions :
           (MayBeMonsterUpdate
              /\ \E offs \in [1..Len(monsters) -> WanderOffsets] :
                   MonsterUpdate(d, p, offs))
           => ProcessedOnce(d) /\ Entering = {} ]_vars
  /\ [][ Entering # {}
           => /\ \E k \in SpawnKinds : \E pos \in SpawnPoints :
                 \E t \in SpawnTimes : Respawn(k, pos, t)
              /\ SubSeq(monsters', 1, Len(monsters)) = monsters
              /\ UNCHANGED << spells, projectiles, effects >> ]_vars

\* An update removed a dead monster from the front of the registry and the
\* boss behind it was processed in the same call.
C21_Witness ==
  /\ timers # << >>
  /\ Len(monsters) <= NumNormals
  /\ \E i \in 1..Len(monsters) :
       /\ monsters[i].isBoss
       /\ monsters[i].time # 0
       /\ monsters[i].state # "dead"

\* C22: under spell updates that keep coming (delta > 0), no projectile and
\* no effect stays for ever.  Every spell update moves each projectile it
\* keeps further along (traveled grows by speed * delta, and stays within the
\* range) and ages each effect it keeps by delta (no further than its
\* duration: 1.5 s for a frost nova, 0.6 s for an impact); and whenever the
\* projectile list or the effect list is not empty, it becomes empty.
C22_ListsDrain ==
  /\ [][ \A d \in Deltas :
           (SpellUpdate(d) /\ UNCHANGED steps)
           => /\ \A j \in 1..Len(projectiles') :
                   /\ projectiles'[j].traveled > 0
                   /\ projectiles'[j].traveled <= 1600
                   /\ \E i \in 1..Len(projectiles) :
                        projectiles'[j].traveled
                          = projectiles[i].traveled + 50 * d
              /\ \A j \in 1..Len(effects') :
                   /\ effects'[j].time >= d
                   /\ effects'[j].time
                        <= (IF effects'[j].type = "frostNova" THEN 30 ELSE 12) ]_vars
  /\ (projectiles # << >>) ~> (projectiles = << >>)
  /\ (effects # << >>) ~> (effects = << >>)

\* After the casts, both lists are empty again: a frostbolt hit a monster
\* and its impact effect has expired, and a frost nova's effect has expired
\* while its cooldown is still running.
C22_Witness ==
  /\ steps > 0
  /\ projectiles = << >>
  /\ effects = << >>
  /\ spells["frostNova"] > 0
  /\ \E i \in 1..Len(monsters) :
       monsters[i].hp = monsters[i].maxHp - 25

\* The distance from a monster to the player, for a monster on the player's
\* axis.
AxisDist(m, p) == Abs(p.x - m.pos.x) + Abs(p.z - m.pos.z)

\* C23: with the player standing still and the capped delta, every update
\* that has a live monster chase (and does not hold it frozen) brings it
\* closer to the player by exactly type.speed * delta and leaves it short of
\* the player; an update leaves a chasing monster chasing or attacking; and
\* a chasing monster that is not frozen comes to attack (or is frozen first).
C23_ChaseReachesAttack ==
  /\ [][ \A d \in ClampedDeltas :
         \A offs \in [1..Len(monsters) -> StillOffsets] :
           MonsterUpdate(d, PlayerPos, offs)
           => \A i \in 1..Len(monsters) :
                LET m == monsters[i]
                    n == monsters'[i]
                IN /\ (n.state = "chase" /\ ~ n.frozen)
                      => /\ AxisDist(n, PlayerPos)
                              = AxisDist(m, PlayerPos) - m.type.speed * d
                         /\ AxisDist(n, PlayerPos) > 0
                         /\ AxisDist(n, PlayerPos) < AxisDist(m, PlayerPos)
                   /\ (m.state = "chase" /\ ~ n.frozen)
                      => n.state \in { "chase", "attack" } ]_vars
  /\ \A i \in 1..(NumNormals + 1) :
       (monsters[i].state = "chase" /\ ~ IsFrozen(monsters[i], now))
         ~> (monsters[i].state = "attack" \/ IsFrozen(monsters[i], now))

\* A monster that was hit by a frost nova on its way has thawed and reached
\* the player: it attacks from inside its attack range.
C23_Witness ==
  \E i \in 1..Len(monsters) :
    /\ monsters[i].state = "attack"
    /\ monsters[i].hp < monsters[i].maxHp
    /\ ~ monsters[i].frozen
    /\ monsters[i].slowUntil # 0
    /\ monsters[i].slowUntil < now
    /\ monsters[i].pos # (IF monsters[i].isBoss THEN BossSpawn ELSE Pt(0, 800))
    /\ AxisDist(monsters[i], PlayerPos) < AttackRange(monsters[i])

\* The monsters of the registry that are no boss, and those of them alive.
NonBoss == { i \in 1..Len(monsters) : ~ monsters[i].isBoss }
LiveNonBoss == { i \in NonBoss : monsters[i].state # "dead" }
Bosses == { i \in 1..Len(monsters) : monsters[i].isBoss }

\* C24 (as amended): the non-boss monsters in the registry, the dead ones
\* that still await their removal included, and the pending respawn timers
\* are together always as many as createMonsterSystem spawned (5 in the
\* game, NumNormals here); the registry holds at most one boss, and never
\* more than one monster above that number.
C24_PopulationKept ==
  /\ Cardinality(NonBoss) + Len(timers) = NumNormals
  /\ Cardinality(Bosses) <= 1
  /\ Len(monsters) <= NumNormals + 1

\* C24 as claimed: the live non-boss monsters and the pending timers are
\* together always as many as were spawned.
C24_LivePlusTimers ==
  /\ Cardinality(LiveNonBoss) + Len(timers) = NumNormals
  /\ Cardinality(Bosses) <= 1
  /\ Len(monsters) <= NumNormals + 1

\* A normal monster was killed and removed, its timer is pending; the boss
\* is dead too and still sinking.
C24_Witness ==
  /\ timers # << >>
  /\ Cardinality(NonBoss) < NumNormals
  /\ \E i \in Bosses : monsters[i].state = "dead"

\* C25 (as amended): a spell hit sets slowUntil to the wall-clock time plus
\* the spell's slowDuration, whatever it was before.  A frost nova (4 s, the
\* longest slowDuration) never shortens a freeze that is still running; a
\* frostbolt hit (3 s) shortens one that has more than 3 s left, by at most
\* 1 s, and no other.
C25_SlowSetFromNow ==
  /\ [][ \A c \in CastInputs : \A a \in CastAngles :
           (c[1] = "frostNova" /\ CastSpell(c[1], c[2], a))
           => \A id \in Slowed :
                ById(monsters, id).slowUntil > now
                  => ById(monsters', id).slowUntil >= ById(monsters, id).slowUntil ]_vars
  /\ [][ \A d \in Deltas :
           SpellUpdate(d)
           => \A id \in Slowed :
                LET old == ById(monsters, id).slowUntil
                    new == ById(monsters', id).slowUntil
                IN old > now
                     => /\ new = now + 60
                        /\ new >= old - 20
                        /\ new < old <=> old - now > 60 ]_vars

\* C25 as claimed: a step that sets slowUntil on a monster whose slowUntil
\* lies in the future never lowers it.
C25_SlowNeverShortens ==
  [][ \A id \in Slowed :
        ById(monsters, id).slowUntil > now
          => ById(monsters', id).slowUntil >= ById(monsters, id).slowUntil ]_vars

\* A frostbolt has hit a monster just after a frost nova did (both at
\* wall-clock time 0): its slowUntil is 3 s, not the nova's 4 s.
C25_Witness ==
  \E i \in 1..Len(monsters) :
    /\ now = 0
    /\ monsters[i].hp = monsters[i].maxHp - 15 - 25
    /\ monsters[i].slowUntil = 60
    /\ \E k \in 1..Len(log) : log[k].op = "bolt" /\ log[k].victims = << monsters[i].id >>

\* The monster of that identity is in the registry and marked frozen.
Marked(id) ==
  \E i \in 1..Len(monsters) : monsters[i].id = id /\ monsters[i].frozen

\* C26: a freeze ends.  A monster update at a wall-clock time at which a
\* monster is not frozen (its slowUntil is reached, or it is dead) leaves it
\* without mark and without snapshot, and where the AI step put it; an
\* update that finds an unmarked monster frozen marks it and takes the
\* position it has then as the snapshot; between updates an unmarked monster
\* has no snapshot; and with the clock moving on and the updates coming,
\* every mark is cleared again.
C26_FreezeEnds ==
  /\ [][ \A d \in LongDeltas :
         \A offs \in [1..Len(monsters) -> StillOffsets] :
           MonsterUpdate(d, PlayerPos, offs)
           => \A id \in Staying :
                LET m == ById(monsters, id)
                    n == ById(monsters', id)
                IN /\ ~ IsFrozen(m, now)
                      => /\ ~ n.frozen
                         /\ n.frozenPos = NoPos
                         /\ m.state # "dead"
                              => n.pos = StepAlive(m, d, PlayerPos, 0).pos
                   /\ (IsFrozen(m, now) /\ ~ m.frozen)
                      => /\ n.frozen
                         /\ n.frozenPos = << m.pos >>
                         /\ n.pos = m.pos ]_vars
  /\ [](\A i \in 1..Len(monsters) :
          ~ monsters[i].frozen => monsters[i].frozenPos = NoPos)
  /\ \A id \in 1..(NumNormals + 1) : Marked(id) ~> ~ Marked(id)

\* A second freeze, after the first one ran out and the monster moved: the
\* monster is marked, and its snapshot is the place it has moved to.
C26_Witness ==
  \E i \in 1..Len(monsters) :
    /\ now = 100
    /\ monsters[i].frozen
    /\ monsters[i].slowUntil = 180
    /\ monsters[i].frozenPos = << monsters[i].pos >>
    /\ monsters[i].pos # (IF monsters[i].isBoss THEN BossSpawn ELSE Pt(0, 800))

\* C27: in every state, for every spell name, known or unknown, canCast is
\* truthy exactly when castSpell with that name would return true.
C27_CanCastAgrees ==
  \A c \in CastInputs : CanCast(spells, c[1]) <=> CastAccepted(spells, c[1])

\* C28: a conversation shows exactly 3 lines.  While the dialogue is open,
\* the lines shown so far are one more than currentLineIndex, at most 3.
\* The dialogue opens only by an E press next to the NPC, which shows the
\* first line; an E press in an open dialogue shows one more line while
\* fewer than 3 were shown, and closes the dialogue once 3 were shown; and
\* nothing of this happens while E is held: every line and the closing take
\* a press that follows a release.
C28_ThreeLines ==
  /\ [](host.dialogueOpen
          => /\ host.currentLineIndex \in 0..2
             /\ host.shown = host.currentLineIndex + 1)
  /\ [][ (~ host.dialogueOpen /\ host'.dialogueOpen)
          => /\ host.nearSven
             /\ host'.currentLineIndex = 0
             /\ host'.shown = 1
             /\ ~ host'.boxHidden
             /\ ~ host.eKeyHandled /\ host'.eKeyHandled ]_vars
  /\ [][ (KeyDown("KeyE") /\ ~ host.eKeyHandled /\ host.dialogueOpen)
          => IF host.shown < 3
             THEN host'.dialogueOpen /\ host'.shown = host.shown + 1
             ELSE ~ host'.dialogueOpen /\ host'.boxHidden
                  /\ host'.shown = 3 ]_vars
  /\ [][ (host'.currentLineIndex # host.currentLineIndex
            \/ host'.shown # host.shown)
          => ~ host.eKeyHandled /\ host'.eKeyHandled ]_vars
  /\ [][ (host.eKeyHandled /\ ~ host'.eKeyHandled)
          => host' = [ host EXCEPT !.eKeyHandled = FALSE ] ]_vars

\* A whole conversation: the dialogue was opened and 3 lines were shown, and
\* the press after the third line has closed it, next to the NPC.
C28_Witness ==
  /\ ~ host.dialogueOpen
  /\ host.currentLineIndex = 3
  /\ host.shown = 3
  /\ host.boxHidden
  /\ host.nearSven

\* C29: at the end of every frame the dialogue is open only if the
\* character is closer to the NPC than the interact distance (5 m), and the
\* prompt is visible exactly if the character is that close and the
\* dialogue is not open.
C29_ProximityRules ==
  [][ steps' # steps
      => LET near == DistSq(host'.x - 6000, host'.z - 4000) < 5000 * 5000
         IN /\ host'.nearSven = near
            /\ host'.dialogueOpen => near
            /\ ~ host'.promptHidden <=> (near /\ ~ host'.dialogueOpen) ]_vars

\* A frame has closed an open dialogue after one line because the character
\* walked to the interact distance: the box and the prompt are hidden.
C29_Witness ==
  /\ steps > 0
  /\ ~ host.nearSven
  /\ ~ host.dialogueOpen
  /\ host.currentLineIndex = 0
  /\ host.shown = 1
  /\ host.boxHidden
  /\ host.promptHidden
  /\ DistSq(host.x - 6000, host.z - 4000) = 5000 * 5000

\* C30: the frozen-materials table holds an entry for exactly the monsters
\* of the registry that are marked frozen (so none for a monster that was
\* removed), and after every monster update none for a dead monster.
C30_MaterialsFollowMark ==
  /\ [](frozenMaterials
          = { monsters[i].id : i \in { j \in 1..Len(monsters) : monsters[j].frozen } })
  /\ [][ (\E d \in Deltas : IsMonsterUpdateBy(d))
          => \A i \in 1..Len(monsters') :
               monsters'[i].state = "dead"
                 => monsters'[i].id \notin frozenMaterials' ]_vars

\* A normal monster was frozen and marked in one update (it stayed at its
\* spawn point), was killed while frozen by a blow that knocked it back, and
\* the next update cleared its mark and its entry.
C30_Witness ==
  \E i \in 1..Len(monsters) :
    /\ monsters[i].state = "dead"
    /\ monsters[i].deathTime = 10
    /\ monsters[i].time = 10
    /\ monsters[i].pos = Pt(0, 800 + KNOCKBACK)
    /\ monsters[i].slowUntil > now
    /\ ~ monsters[i].frozen
    /\ monsters[i].id \notin frozenMaterials

====
